---- MODULE Spec2Model ----
(***************************************************************************)
(* A model of bin/csvutil.py, from the command line to the exit of the     *)
(* process.  MainSpec is the whole program: the usage and version texts,   *)
(* the refusal of a word that names no operation, and the three            *)
(* operations.  Spec is the operation merge from its entry (op_merge; and  *)
(* IdemSpec on the inputs of a second run), SortSpec the operation sort    *)
(* from its entry (op_sort).                                               *)
(*                                                                         *)
(* A character is its code point (what ord gives: "a" is 97) and a text is *)
(* a sequence of characters, so that the conversions of the program (the   *)
(* regular expression of ff, int(), float(), str() of a float, str.strip,  *)
(* delimiter.join and the row reader) are computed character by character  *)
(* for every character of Unicode.  A row is a sequence of texts, a float  *)
(* is an IEEE 754 double with its arithmetic rounded as CPython's.         *)
(* Python's None is the empty tuple and a value v that may be None is the  *)
(* one-element tuple <<v>>.                                                *)
(***************************************************************************)
EXTENDS Integers, Sequences, FiniteSets, TLC, Bags

VARIABLES
    operation,        \* None without an argument, else <<sys.argv[1]>>
    args,             \* the -f texts: args.field_function of op_merge,
                      \* args.fields of op_sort (None without -f) and,
                      \* as its one item, args.fields of op_pick
    pc,               \* "main", "start" (an operation is entered), "rows"
                      \* (inside csv_rows), "exit"
    field_functions,  \* list of <<field index, function name>>
    sfield_set,       \* set of aggregated field indices
    aggregate_values, \* dict: field index -> list of raw values
    cmp_line,         \* None, or <<comparable part of the open group>>
    stdout,           \* the lines printed to standard output, in order
    exit_code,        \* None while running, <<status>> once exited
    error,            \* "" or what ended the run: "fatal" or the name of
                      \* the exception raised
    rows_read,        \* history: the rows the reader has handed over
    fields,           \* op_sort: list of <<field index, type name>>;
                      \* op_pick: list of integers
    row_list          \* op_sort: the rows collected, sorted in place

vars == <<operation, args, pc, field_functions, sfield_set, aggregate_values,
          cmp_line, stdout, exit_code, error, rows_read, fields, row_list>>

\* Bounds of the model.
MaxRows == 3
MaxArgs == 2

None == <<>>

-----------------------------------------------------------------------------
(* Characters and small texts.                                             *)

\* "0" to "9"
Digits == <<48, 49, 50, 51, 52, 53, 54, 55, 56, 57>>

\* [0-9]
IsDigit(c) == 48 <= c /\ c <= 57

DigitVal(c) == c - 48

\* [a-z]
IsLower(c) == 97 <= c /\ c <= 122

\* The number a run of digits denotes, for a run of nine digits at most.
RECURSIVE int(_)
int(t) ==
    IF Len(t) = 0 THEN 0
    ELSE 10 * int(SubSeq(t, 1, Len(t) - 1)) + DigitVal(t[Len(t)])

\* The decimal digits of a natural number.
RECURSIVE IntDigits(_)
IntDigits(k) ==
    IF k < 10 THEN <<Digits[k + 1]>>
    ELSE IntDigits(k \div 10) \o <<Digits[(k % 10) + 1]>>

-----------------------------------------------------------------------------
(* Natural numbers of any size: the magnitude of a Python int and the      *)
(* mantissa of a float.  A natural is the sequence of its digits in base   *)
(* 2^15, least significant first, without a leading zero digit; <<>> is 0. *)

Base == 32768

PowersOfTwo ==
    <<1, 2, 4, 8, 16, 32, 64, 128, 256, 512, 1024, 2048, 4096, 8192, 16384,
      32768>>

\* 2^k, for 0 <= k <= 15.
TwoTo(k) == PowersOfTwo[k + 1]

SetMin(S) == CHOOSE x \in S : \A y \in S : x <= y

SetMax(S) == CHOOSE x \in S : \A y \in S : y <= x

\* The sum of the values of a function to naturals: with each value one
\* more the function is a bag, and the sum the number of its elements.
Sum(f) == BagCardinality([x \in DOMAIN f |-> f[x] + 1]) - Cardinality(DOMAIN f)

\* The natural of an integer 0 <= k < 2^30.
NFromInt(k) ==
    IF k = 0 THEN <<>>
    ELSE IF k < Base THEN <<k>>
    ELSE <<k % Base, k \div Base>>

\* The integer of a natural below 2^30.
NToInt(a) ==
    IF Len(a) = 0 THEN 0 ELSE IF Len(a) = 1 THEN a[1] ELSE a[1] + Base * a[2]

\* The number of zero digits a sequence of digits ends with.
ZerosAtEnd(a) ==
    CHOOSE d \in 0..Len(a) :
        /\ d = Len(a) \/ a[Len(a) - d] # 0
        /\ \A e \in 0..(d - 1) : a[Len(a) - e] = 0

\* The natural of a sequence of digits.
NNorm(a) == SubSeq(a, 1, Len(a) - ZerosAtEnd(a))

\* The natural of the n digits f[1], ..., f[n].
NDigits(f, n) == NNorm(SubSeq(f, 1, n))

Limb(a, i) == IF 1 <= i /\ i <= Len(a) THEN a[i] ELSE 0

\* a + b.  Digit j hands a carry on when the two digits add up to
\* Base - 1; the carry into digit i is made at the nearest digit below i
\* that does not hand one on, d digits below i.
Hands(a, b, j) == Limb(a, j) + Limb(b, j) = Base - 1

CarryFrom(a, b, i) ==
    CHOOSE d \in 1..(i - 1) :
        /\ ~Hands(a, b, i - d)
        /\ \A e \in 1..(d - 1) : Hands(a, b, i - e)

CarryInto(a, b, i) ==
    IF \A d \in 1..(i - 1) : Hands(a, b, i - d) THEN 0
    ELSE (Limb(a, i - CarryFrom(a, b, i)) + Limb(b, i - CarryFrom(a, b, i)))
         \div Base

SumDigits(a, b, n) ==
    NDigits([i \in 1..(n + 1) |->
                (Limb(a, i) + Limb(b, i) + CarryInto(a, b, i)) % Base],
            n + 1)

NAdd(a, b) == SumDigits(a, b, IF Len(a) > Len(b) THEN Len(a) ELSE Len(b))

\* a - b, for a >= b.  The borrow into digit i is made at the nearest
\* digit below i in which a and b differ.
BorrowFrom(a, b, i) ==
    CHOOSE d \in 1..(i - 1) :
        /\ a[i - d] # Limb(b, i - d)
        /\ \A e \in 1..(d - 1) : a[i - e] = Limb(b, i - e)

BorrowInto(a, b, i) ==
    IF \A d \in 1..(i - 1) : a[i - d] = Limb(b, i - d) THEN 0
    ELSE IF a[i - BorrowFrom(a, b, i)] < Limb(b, i - BorrowFrom(a, b, i))
    THEN 1 ELSE 0

NSub(a, b) ==
    NDigits([i \in 1..Len(a) |->
                (a[i] - Limb(b, i) - BorrowInto(a, b, i)) % Base],
            Len(a))

\* The number of digits above the highest digit in which a and b differ,
\* for two naturals of one length that differ.
EqualAbove(a, b) ==
    CHOOSE d \in 0..(Len(a) - 1) :
        /\ a[Len(a) - d] # b[Len(a) - d]
        /\ \A e \in 0..(d - 1) : a[Len(a) - e] = b[Len(a) - e]

\* -1, 0 or 1 as a < b, a = b or a > b.
NCmp(a, b) ==
    IF Len(a) # Len(b) THEN (IF Len(a) < Len(b) THEN -1 ELSE 1)
    ELSE IF a = b THEN 0
    ELSE IF a[Len(a) - EqualAbove(a, b)] < b[Len(a) - EqualAbove(a, b)]
    THEN -1 ELSE 1

\* a * B^k
ShiftDigits(a, k) == IF a = <<>> THEN <<>> ELSE [i \in 1..k |-> 0] \o a

\* a * k, for 0 <= k <= Base: the low parts of the products of the digits,
\* and their high parts one digit up.
NMulSmall(a, k) ==
    IF k = 0 \/ a = <<>> THEN <<>>
    ELSE NAdd(SubSeq([i \in 1..Len(a) |-> (a[i] * k) % Base], 1, Len(a)),
              <<0>> \o [i \in 1..Len(a) |-> (a[i] * k) \div Base])

\* The digits of a that meet a digit of b in column c of the product.
Meeting(a, b, c) ==
    (IF c + 1 - Len(b) > 1 THEN c + 1 - Len(b) ELSE 1)
        ..(IF c < Len(a) THEN c ELSE Len(a))

\* The low and the high parts of the products of column c, added up: each
\* sum is below 2^30 for naturals of fewer than 2^15 digits.
ColumnLow(a, b, c) ==
    Sum([i \in Meeting(a, b, c) |-> (a[i] * b[c + 1 - i]) % Base])

ColumnHigh(a, b, c) ==
    Sum([i \in Meeting(a, b, c) |-> (a[i] * b[c + 1 - i]) \div Base])

\* The natural with the numbers f[1], ..., f[n] below 2^30 for its digits.
Carrying(f) ==
    NAdd(NDigits([c \in 1..Len(f) |-> f[c] % Base], Len(f)),
         <<0>> \o [c \in 1..Len(f) |-> f[c] \div Base])

Columns(low, high) == NAdd(Carrying(low), ShiftDigits(Carrying(high), 1))

\* a * b, column by column.
NMul(a, b) ==
    IF a = <<>> \/ b = <<>> THEN <<>>
    ELSE Columns(SubSeq([c \in 1..(Len(a) + Len(b) - 1) |-> ColumnLow(a, b, c)],
                        1, Len(a) + Len(b) - 1),
                 SubSeq([c \in 1..(Len(a) + Len(b) - 1) |-> ColumnHigh(a, b, c)],
                        1, Len(a) + Len(b) - 1))

\* a * 2^n, digit by digit: w whole digits and s bits more.
ShiftedUp(a, w, s) ==
    NDigits([i \in 1..(Len(a) + w + 1) |->
                IF i <= w THEN 0
                ELSE (Limb(a, i - w) % TwoTo(15 - s)) * TwoTo(s)
                     + (Limb(a, i - w - 1) \div TwoTo(15 - s))],
            Len(a) + w + 1)

NShl(a, n) == ShiftedUp(a, n \div 15, n % 15)

\* a \div 2^n, digit by digit.
ShiftedDown(a, w, s) ==
    NDigits([i \in 1..(Len(a) - w) |->
                (a[i + w] \div TwoTo(s))
                + (Limb(a, i + w + 1) % TwoTo(s)) * TwoTo(15 - s)],
            Len(a) - w)

NShr(a, n) ==
    IF n \div 15 >= Len(a) THEN <<>> ELSE ShiftedDown(a, n \div 15, n % 15)

\* Bit i of a (bit 0 is the lowest), and: are the n lowest bits of a zero?
NBit(a, i) == (Limb(a, (i \div 15) + 1) \div TwoTo(i % 15)) % 2

NLowZero(a, n) ==
    /\ \A i \in 1..(n \div 15) : Limb(a, i) = 0
    /\ Limb(a, (n \div 15) + 1) % TwoTo(n % 15) = 0

\* k.bit_length(), for 0 <= k < 2^30.
BitsOfDigit(k) == Cardinality({i \in 0..14 : TwoTo(i) <= k})

Bits(k) == IF k < Base THEN BitsOfDigit(k) ELSE 15 + BitsOfDigit(k \div Base)

\* a.bit_length()
NBitLen(a) == IF a = <<>> THEN 0 ELSE 15 * (Len(a) - 1) + Bits(a[Len(a)])

LowZeroBits(k) == SetMin({i \in 0..14 : (k \div TwoTo(i)) % 2 = 1})

ZeroBitsBelow(a, i) == 15 * (i - 1) + LowZeroBits(a[i])

\* The number of zero bits below the lowest one bit of a, for a > 0.
TrailingZeros(a) == ZeroBitsBelow(a, SetMin({j \in 1..Len(a) : a[j] # 0}))

SmallPowersOfTen == <<1, 10, 100, 1000, 10000>>

Square(a) == NMul(a, a)

\* 10^k from h = 10^(k \div 2).
SquaredPow10(h, k) ==
    IF h = <<>> THEN <<>>
    ELSE NMulSmall(Square(h), IF k % 2 = 0 THEN 1 ELSE 10)

\* 10^k
RECURSIVE NPow10(_)
NPow10(k) ==
    IF k <= 4 THEN <<SmallPowersOfTen[k + 1]>>
    ELSE SquaredPow10(NPow10(k \div 2), k)

\* Long division, bit by bit from the highest: r is what is left of the
\* dividend, q the quotient so far.  A step settles bit i of the quotient,
\* sb being the divisor times 2^i.
DivBit(st, sb, i) ==
    IF NCmp(st.r, sb) >= 0
    THEN [r |-> NSub(st.r, sb), q |-> NAdd(st.q, NShl(<<1>>, i))]
    ELSE st

DivStep(st, b, i) == DivBit(st, NShl(b, i), i)

\* The steps for bits hi down to lo of the quotient; with nothing left of
\* the dividend, the bits are zero.
RECURSIVE DivRange(_, _, _, _)
DivRange(st, b, lo, hi) ==
    IF st.r = <<>> THEN st
    ELSE IF lo = hi THEN DivStep(st, b, lo)
    ELSE DivRange(DivRange(st, b, ((lo + hi) \div 2) + 1, hi), b,
                  lo, (lo + hi) \div 2)

\* Quotient and remainder of a by b, for b > 0.
NDivMod(a, b) ==
    IF NCmp(a, b) < 0 THEN [r |-> a, q |-> <<>>]
    ELSE DivRange([r |-> a, q |-> <<>>], b, 0, NBitLen(a) - NBitLen(b))

\* The natural a run of decimal digits denotes.
RECURSIVE NFromDigits(_)
NFromDigits(t) ==
    IF Len(t) <= 4 THEN NFromInt(int(t))
    ELSE NAdd(NMul(NFromDigits(SubSeq(t, 1, Len(t) \div 2)),
                   NPow10(Len(t) - (Len(t) \div 2))),
              NFromDigits(SubSeq(t, (Len(t) \div 2) + 1, Len(t))))

\* math.isqrt(n) and what is left of n: the root is built bit by bit from
\* the highest; x is what is left, c the root so far (shifted).  A step
\* settles bit i of the root: d is 4^i, and the bit is set when c + d fits
\* into what is left.
SqrtTake(st, d, half, fits) ==
    [x |-> IF fits THEN NSub(st.x, NAdd(st.c, d)) ELSE st.x,
     c |-> IF fits THEN NAdd(half, d) ELSE half]

SqrtBit(st, d) ==
    SqrtTake(st, d, NShr(st.c, 1), NCmp(st.x, NAdd(st.c, d)) >= 0)

SqrtStep(st, i) == SqrtBit(st, NShl(<<1>>, 2 * i))

\* The steps for bits hi down to lo of the root; with nothing left of n,
\* the bits are zero.
RECURSIVE SqrtRange(_, _, _)
SqrtRange(st, lo, hi) ==
    IF st.x = <<>> THEN [x |-> <<>>, c |-> NShr(st.c, hi - lo + 1)]
    ELSE IF lo = hi THEN SqrtStep(st, lo)
    ELSE SqrtRange(SqrtRange(st, ((lo + hi) \div 2) + 1, hi), lo, (lo + hi) \div 2)

RootAndRest(st) == [root |-> st.c, rem |-> st.x]

NSqrt(n) ==
    IF n = <<>> THEN [root |-> <<>>, rem |-> <<>>]
    ELSE RootAndRest(SqrtRange([x |-> n, c |-> <<>>], 0, (NBitLen(n) - 1) \div 2))

\* Integers with a sign: [neg, m], zero without sign.
Signed(neg, m) == [neg |-> neg /\ m # <<>>, m |-> m]

SAdd(x, y) ==
    IF x.neg = y.neg THEN Signed(x.neg, NAdd(x.m, y.m))
    ELSE IF NCmp(x.m, y.m) >= 0 THEN Signed(x.neg, NSub(x.m, y.m))
    ELSE Signed(y.neg, NSub(y.m, x.m))

SLess(x, y) ==
    IF x.neg # y.neg THEN x.neg
    ELSE NCmp(IF x.neg THEN y.m ELSE x.m, IF x.neg THEN x.m ELSE y.m) < 0

-----------------------------------------------------------------------------
(* Floats: IEEE 754 binary64, as CPython's float.  A float is            *)
(*   [kind |-> "fin", neg, m, e] - the number (-1)^neg * m * 2^e, with m   *)
(*        a natural that is odd (or m = 0 and e = 0: the zero of sign neg) *)
(*   [kind |-> "inf", neg]       - an infinity                             *)
(*   [kind |-> "nan"]            - not a number                            *)

Double(kind, neg, m, e) == [kind |-> kind, neg |-> neg, m |-> m, e |-> e]

NaN == Double("nan", FALSE, <<>>, 0)

Inf(neg) == Double("inf", neg, <<>>, 0)

Zero(neg) == Double("fin", neg, <<>>, 0)

Odd(neg, m, e, z) == Double("fin", neg, NShr(m, z), e + z)

\* The float m * 2^e exactly, for m of at most 53 bits; 2^1024 or more is
\* inf.
Finite(neg, m, e) ==
    IF m = <<>> THEN Zero(neg)
    ELSE IF NBitLen(m) + e > 1024 THEN Inf(neg)
    ELSE Odd(neg, m, e, TrailingZeros(m))

IsZero(x) == x.kind = "fin" /\ x.m = <<>>

\* The exponent of the last place of a float whose 53rd bit from the top
\* has exponent e: 2^-1074 is the least.
LastPlace(e) == IF e < -1074 THEN -1074 ELSE e

\* q or q + 1: the nearest to q + f, ties to even, where half says that
\* f >= 1/2 and more that f is not 0 or 1/2.
Nearest(q, half, more) ==
    IF half /\ (more \/ Limb(q, 1) % 2 = 1) THEN NAdd(q, <<1>>) ELSE q

\* n \div 2^drop rounded by the bits dropped.
Dropped(n, drop, sticky) ==
    Nearest(NShr(n, drop), NBit(n, drop - 1) = 1,
            sticky \/ ~NLowZero(n, drop - 1))

RoundedAt(neg, n, s, sticky, E) ==
    Finite(neg, IF E <= s THEN n ELSE Dropped(n, E - s, sticky),
           IF E <= s THEN s ELSE E)

\* The float nearest to (n + f) * 2^s, ties to even, where 0 <= f < 1 and
\* f > 0 just when sticky (n then has at least 55 bits).  The last place of
\* the result is 2^-1074 at the least; a result of 2^1024 or more is inf.
RoundDouble(neg, n, s, sticky) ==
    IF n = <<>> THEN Zero(neg)
    ELSE RoundedAt(neg, n, s, sticky, LastPlace(s + NBitLen(n) - 53))

RoundSigned(v, e) == RoundDouble(v.neg, v.m, e, FALSE)

\* The sum of two finite floats that are not zero, e the lesser exponent.
AddAligned(x, y, e) ==
    RoundSigned(SAdd(Signed(x.neg, NShl(x.m, x.e - e)),
                     Signed(y.neg, NShl(y.m, y.e - e))), e)

\* x + y
FAdd(x, y) ==
    IF x.kind = "nan" \/ y.kind = "nan" THEN NaN
    ELSE IF x.kind = "inf"
    THEN (IF y.kind = "inf" /\ y.neg # x.neg THEN NaN ELSE x)
    ELSE IF y.kind = "inf" THEN y
    ELSE IF x.m = <<>> /\ y.m = <<>> THEN Zero(x.neg /\ y.neg)
    ELSE IF x.m = <<>> THEN y
    ELSE IF y.m = <<>> THEN x
    ELSE AddAligned(x, y, IF x.e < y.e THEN x.e ELSE y.e)

\* x < y for two finite floats above zero with their highest bit at the
\* same place.
AlignedLess(x, y, e) == NCmp(NShl(x.m, x.e - e), NShl(y.m, y.e - e)) < 0

\* |x| < |y| for two floats that are no nan.
MagLess(x, y) ==
    IF x.kind = "inf" THEN FALSE
    ELSE IF y.kind = "inf" THEN TRUE
    ELSE IF y.m = <<>> THEN FALSE
    ELSE IF x.m = <<>> THEN TRUE
    ELSE IF x.e + NBitLen(x.m) # y.e + NBitLen(y.m)
    THEN x.e + NBitLen(x.m) < y.e + NBitLen(y.m)
    ELSE AlignedLess(x, y, IF x.e < y.e THEN x.e ELSE y.e)

\* x < y; a comparison with nan is false, the two zeros are equal.
FLess(x, y) ==
    IF x.kind = "nan" \/ y.kind = "nan" THEN FALSE
    ELSE IF IsZero(x) /\ IsZero(y) THEN FALSE
    ELSE IF IsZero(x) THEN ~y.neg
    ELSE IF IsZero(y) THEN x.neg
    ELSE IF x.neg # y.neg THEN x.neg
    ELSE MagLess(IF x.neg THEN y ELSE x, IF x.neg THEN x ELSE y)

\* x / 2
FHalf(x) ==
    IF x.kind # "fin" THEN x ELSE RoundDouble(x.neg, x.m, x.e - 1, FALSE)

-----------------------------------------------------------------------------
(* float(text).                                                            *)

\* str.isspace of a character (Unicode 14.0, the database of Python 3.11).
IsSpace(c) ==
    \/ 9 <= c /\ c <= 13
    \/ 28 <= c /\ c <= 32
    \/ c \in {133, 160, 5760, 8232, 8233, 8239, 8287, 12288}
    \/ 8192 <= c /\ c <= 8202

Between(e, keep) ==
    IF keep = {} THEN <<>> ELSE SubSeq(e, SetMin(keep), SetMax(keep))

Before(t, stop) == IF stop = {} THEN Len(t) ELSE SetMin(stop) - 1

\* e.strip()
strip(e) == Between(e, {i \in 1..Len(e) : ~IsSpace(e[i])})

\* An underscore is allowed between two digits only.
UnderscoresOk(t) ==
    \A i \in 1..Len(t) :
        t[i] = 95 => /\ i > 1 /\ IsDigit(t[i - 1])  \* _
                      /\ i < Len(t) /\ IsDigit(t[i + 1])

WithoutUnderscores(t) == SelectSeq(t, LAMBDA c : c # 95)  \* _

\* The text with "A" to "Z" as "a" to "z" (inf and nan are read in any case).
lower(t) ==
    [i \in 1..Len(t) |-> IF 65 <= t[i] /\ t[i] <= 90 THEN t[i] + 32 ELSE t[i]]

\* The digit zero of every run of ten decimal digits of Unicode 14.0.
DecimalZeros ==
    <<48, 1632, 1776, 1984, 2406, 2534, 2662, 2790, 2918, 3046, 3174, 3302,
      3430, 3558, 3664, 3792, 3872, 4160, 4240, 6112, 6160, 6470, 6608, 6784,
      6800, 6992, 7088, 7232, 7248, 42528, 43216, 43264, 43472, 43504, 43600,
      44016, 65296, 66720, 68912, 69734, 69872, 69942, 70096, 70384, 70736,
      70864, 71248, 71360, 71472, 71904, 72016, 72784, 73040, 73120, 92768,
      92864, 93008, 120782, 120792, 120802, 120812, 120822, 123200, 123632,
      125264, 130032>>

DecimalRun(c) == {i \in 1..Len(DecimalZeros) : DecimalZeros[i] <= c /\ c <= DecimalZeros[i] + 9}

\* What float() and int() make of a character of a text that is not all
\* ASCII: a character below 127 is kept, white space is a blank, a decimal
\* digit is its ASCII digit, and any other character is "?".
ToAscii(c) ==
    IF c < 127 THEN c
    ELSE IF IsSpace(c) THEN 32
    ELSE IF DecimalRun(c) # {} THEN 48 + c - DecimalZeros[CHOOSE i \in DecimalRun(c) : TRUE]
    ELSE 63

\* The text is cut behind the first "?" put in.
CutBehind(a, put) == IF put = {} THEN a ELSE SubSeq(a, 1, SetMin(put))

Transformed(a, t) == CutBehind(a, {i \in 1..Len(t) : a[i] = 63 /\ t[i] >= 127})

\* _PyUnicode_TransformDecimalAndSpaceToASCII
TransformDecimalAndSpaceToASCII(t) ==
    IF \A i \in 1..Len(t) : t[i] < 128 THEN t
    ELSE Transformed(SubSeq([i \in 1..Len(t) |-> ToAscii(t[i])], 1, Len(t)), t)

\* Py_ISSPACE: the white space float() and int() skip at both ends.
Py_ISSPACE(c) == (9 <= c /\ c <= 13) \/ c = 32

c_strip(e) == Between(e, {i \in 1..Len(e) : ~Py_ISSPACE(e[i])})

\* The length of the run of digits at the start of t.
DigitRun(t) == Before(t, {i \in 1..Len(t) : ~IsDigit(t[i])})

From(t, nz) == IF nz = {} THEN <<>> ELSE SubSeq(t, SetMin(nz), Len(t))

\* A run of digits without the zeros it starts with.
StripZeros(t) == From(t, {i \in 1..Len(t) : t[i] # 48})  \* 0

Capped(z) == IF Len(z) > 5 THEN 99999 ELSE int(z)

\* The exponent a run of digits denotes, cut at 99999.
ExpVal(t) == Capped(StripZeros(t))

Excess(need) == IF need > 0 THEN need ELSE 0

\* The quotient q of a division, and whether nothing was left over.
Exact(n) == [inexact |-> FALSE, q |-> n]

Inexact(d) == [inexact |-> d.r # <<>>, q |-> d.q]

\* d * 10^x for x >= 0; for x < 0 the quotient of d * 2^sh by p = 10^-x.
DecimalQuotient(d, x, sh, p) ==
    IF x >= 0 THEN Exact(NMul(d, p)) ELSE Inexact(NDivMod(NShl(d, sh), p))

RoundQuotient(neg, q, sh) == RoundDouble(neg, q.q, -sh, q.inexact)

\* For x < 0 the quotient is taken in units of 2^-sh, sh such that it has
\* 57 bits at least.
DecimalScaled(neg, d, x, p) ==
    RoundQuotient(neg,
                  DecimalQuotient(d, x, Excess(58 + NBitLen(p) - NBitLen(d)), p),
                  IF x >= 0 THEN 0 ELSE Excess(58 + NBitLen(p) - NBitLen(d)))

\* The float nearest to d * 10^x, for a natural d of nd decimal digits.
DecimalToDouble(neg, d, nd, x) ==
    IF d = <<>> THEN Zero(neg)
    ELSE IF nd + x > 310 THEN Inf(neg)
    ELSE IF nd + x < -325 THEN Zero(neg)
    ELSE DecimalScaled(neg, d, x, NPow10(IF x >= 0 THEN x ELSE -x))

\* What float(text) gives: a float, or ValueError (ok is false).
ValueError == [ok |-> FALSE, q |-> Zero(FALSE)]

Parsed(q) == [ok |-> TRUE, q |-> q]

\* The digits of an exponent "e", sign, digits.
ExpDigits(rest) ==
    SubSeq(rest, IF Len(rest) > 1 /\ rest[2] \in {43, 45} THEN 3 ELSE 2,  \* +-
           Len(rest))

AllDigits(ed) == Len(ed) > 0 /\ DigitRun(ed) = Len(ed)

ExponentOk(rest) == rest[1] \in {101, 69} /\ AllDigits(ExpDigits(rest))  \* eE

Negated(neg, v) == IF neg THEN -v ELSE v

Exponent(rest) ==
    Negated(Len(rest) > 1 /\ rest[2] = 45, ExpVal(ExpDigits(rest)))  \* -

\* The float of significant digits sig times 10^x.
float_value(neg, sig, x) ==
    Parsed(DecimalToDouble(neg, NFromDigits(sig), Len(sig), x))

\* Digits ip before and fp after the point, and the rest of the literal:
\* one digit at least, and nothing or an exponent after them.
float_exponent(neg, ip, fp, rest) ==
    IF Len(ip) + Len(fp) = 0 \/ (rest # <<>> /\ ~ExponentOk(rest))
    THEN ValueError
    ELSE float_value(neg, StripZeros(ip \o fp),
                     (IF rest = <<>> THEN 0 ELSE Exponent(rest)) - Len(fp))

float_fraction(neg, ip, after, nf) ==
    float_exponent(neg, ip, SubSeq(after, 1, nf),
                   SubSeq(after, nf + 1, Len(after)))

float_point(neg, ip, rest) ==
    IF Len(rest) > 0 /\ rest[1] = 46  \* .
    THEN float_fraction(neg, ip, Tail(rest), DigitRun(Tail(rest)))
    ELSE float_fraction(neg, ip, rest, 0)

float_decimal(neg, s, ni) ==
    float_point(neg, SubSeq(s, 1, ni), SubSeq(s, ni + 1, Len(s)))

\* "inf", "infinity" or "nan" in any case, or a decimal literal.
float_named(neg, s, w) ==
    IF w = <<105, 110, 102>> \/ w = <<105, 110, 102, 105, 110, 105, 116, 121>>
    THEN Parsed(Inf(neg))
    ELSE IF w = <<110, 97, 110>> THEN Parsed(NaN)  \* nan
    ELSE float_decimal(neg, s, DigitRun(s))

float_unsigned(neg, s) == float_named(neg, s, lower(s))

float_signed(s) ==
    float_unsigned(Len(s) > 0 /\ s[1] = 45,  \* -
                   IF Len(s) > 0 /\ s[1] \in {43, 45} THEN Tail(s) ELSE s)  \* +-

float_stripped(s) ==
    IF UnderscoresOk(s) THEN float_signed(WithoutUnderscores(s))
    ELSE ValueError

\* float(text).  Decimal digits and white space beyond ASCII are turned
\* into ASCII and the text is stripped of white space; then an optional
\* sign and "inf", "infinity" or "nan" in any case, or a decimal literal:
\* digits with an optional point (one digit at least), an optional
\* exponent, underscores between digits.
float(t) == float_stripped(c_strip(TransformDecimalAndSpaceToASCII(t)))

-----------------------------------------------------------------------------
(* str(x) of a float x: repr, the shortest decimal that reads back as x.   *)

Digit(r, s, d) == [d |-> d, r |-> NSub(r, NMulSmall(s, d))]

\* The digit d = floor(r / s) and the remainder, for r < 10 * s.
DivDigit(r, s) ==
    Digit(r, s, SetMax({d \in 0..9 : NCmp(NMulSmall(s, d), r) <= 0}))

\* The digits of r / s (below 1): digits are produced until what is left
\* is within the margin below (mm) or above (mp) of the number, where the
\* last digit is rounded; even says that the ends of the margins read back
\* as the number too.  g holds what is left, the margins and the digits so
\* far; dd is the next digit and what is left after it; cl compares that
\* with the margin below, ch that and the margin above with s.
Generating(r, mp, mm, digits, done) ==
    [r |-> r, mp |-> mp, mm |-> mm, digits |-> digits, done |-> done]

LastDigit(g, dd, up) ==
    Generating(<<>>, <<>>, <<>>,
               Append(g.digits, IF up THEN dd.d + 1 ELSE dd.d), TRUE)

AboveHalf(dd, c2) == c2 > 0 \/ (c2 = 0 /\ dd.d % 2 = 1)

Decided(g, dd, s, mp, mm, even, cl, ch) ==
    IF ch = 0 /\ even THEN LastDigit(g, dd, cl > 0)
    ELSE IF cl < 0 \/ (cl = 0 /\ even)
    THEN LastDigit(g, dd, /\ dd.r # <<>>
                          /\ ch > 0
                          /\ AboveHalf(dd, NCmp(NMulSmall(dd.r, 2), s)))
    ELSE IF ch > 0 THEN LastDigit(g, dd, TRUE)
    ELSE Generating(dd.r, mp, mm, Append(g.digits, dd.d), FALSE)

Decide(g, dd, s, mp, mm, even) ==
    Decided(g, dd, s, mp, mm, even,
            NCmp(dd.r, mm), NCmp(NAdd(dd.r, mp), s))

NextDigit(g, s, even) ==
    Decide(g, DivDigit(NMulSmall(g.r, 10), s), s,
           NMulSmall(g.mp, 10), NMulSmall(g.mm, 10), even)

\* n digits more, or fewer when the last digit comes before.
RECURSIVE GenerateRange(_, _, _, _)
GenerateRange(g, s, even, n) ==
    IF g.done THEN g
    ELSE IF n = 1 THEN NextDigit(g, s, even)
    ELSE GenerateRange(GenerateRange(g, s, even, n \div 2), s, even,
                       n - (n \div 2))

\* A float has 17 significant digits at most.
GenerateDigits(r, s, mp, mm, even) ==
    GenerateRange(Generating(r, mp, mm, <<>>, FALSE), s, even, 17).digits

Reaches(c, even) == IF even THEN c >= 0 ELSE c > 0

Below(c, even) == IF even THEN c < 0 ELSE c <= 0

Scale(r, s, mp, mm, k) == [r |-> r, s |-> s, mp |-> mp, mm |-> mm, k |-> k]

\* Scaling: k is raised while (r + mp) / s reaches 1, lowered while ten
\* times it does not.
RECURSIVE ScaleUp(_, _, _, _, _, _)
ScaleUp(r, s, mp, mm, even, k) ==
    IF Reaches(NCmp(NAdd(r, mp), s), even)
    THEN ScaleUp(r, NMulSmall(s, 10), mp, mm, even, k + 1)
    ELSE Scale(r, s, mp, mm, k)

RECURSIVE ScaleDown(_, _, _, _, _, _)
ScaleDown(r, s, mp, mm, even, k) ==
    IF Below(NCmp(NMulSmall(NAdd(r, mp), 10), s), even)
    THEN ScaleDown(NMulSmall(r, 10), s, NMulSmall(mp, 10),
                   NMulSmall(mm, 10), even, k - 1)
    ELSE Scale(r, s, mp, mm, k)

Generated(sc, even) ==
    [decpt |-> sc.k,
     digits |-> GenerateDigits(sc.r, sc.s, sc.mp, sc.mm, even)]

Lowered(up, even) ==
    Generated(ScaleDown(up.r, up.s, up.mp, up.mm, even, up.k), even)

Raised10(st, even) ==
    Lowered(ScaleUp(st.r, st.s, st.mp, st.mm, even, st.k), even)

\* The fraction r / s and its margins times 10^-est, p being 10^|est|.
Estimated(st, even, est, p) ==
    Raised10(IF est < 0
             THEN Scale(NMul(st.r, p), st.s, NMul(st.mp, p), NMul(st.mm, p), est)
             ELSE Scale(st.r, NMul(st.s, p), st.mp, st.mm, est),
             even)

\* f * 2^ex as the fraction r / s, with the margins to the floats next to
\* it over s; the margin above is twice the one below at a power of two.
Margins(f, ex, wide) ==
    Scale(NShl(f, Excess(ex) + 1 + wide),
          NShl(<<1>>, Excess(-ex) + 1 + wide),
          NShl(<<1>>, Excess(ex) + wide),
          NShl(<<1>>, Excess(ex)), 0)

Shortest(f, ex, narrow, est) ==
    Estimated(Margins(f, ex, IF narrow THEN 1 ELSE 0), NBit(f, 0) = 0, est,
              NPow10(IF est < 0 THEN -est ELSE est))

ShortestFrom(x, L, ex) ==
    Shortest(NShl(x.m, x.e - ex), ex, L = 1 /\ ex > -1074,
             ((x.e + L - 1) * 30103) \div 100000)

ShortestAt(x, L) == ShortestFrom(x, L, LastPlace(x.e + L - 53))

\* The shortest digits of a finite float that is not zero:
\* [digits, decpt], the number being 0.d1d2... * 10^decpt.
ShortestDigits(x) == ShortestAt(x, NBitLen(x.m))

DigitChars(ds) == [i \in 1..Len(ds) |-> Digits[ds[i] + 1]]

Sign(x) == IF x.neg THEN <<45>> ELSE <<>>  \* -

ZerosOf(k) == [i \in 1..k |-> 48]  \* 0

\* The digits with the point after p of them.
Positional(ds, p) ==
    IF p <= 0 THEN <<48, 46>> \o ZerosOf(-p) \o ds  \* 0.
    ELSE IF p >= Len(ds) THEN ds \o ZerosOf(p - Len(ds)) \o <<46, 48>>  \* .0
    ELSE SubSeq(ds, 1, p) \o <<46>> \o SubSeq(ds, p + 1, Len(ds))  \* .

TwoDigits(xd) == IF Len(xd) < 2 THEN <<48>> \o xd ELSE xd  \* 0

\* One digit before the point and the exponent x10.
Scientific(ds, x10) ==
    <<ds[1]>>
    \o (IF Len(ds) > 1 THEN <<46>> \o SubSeq(ds, 2, Len(ds)) ELSE <<>>)  \* .
    \o <<101, IF x10 < 0 THEN 45 ELSE 43>>  \* e-+
    \o TwoDigits(IntDigits(IF x10 < 0 THEN -x10 ELSE x10))

repr_digits(ds, p) ==
    IF -4 < p /\ p <= 16 THEN Positional(ds, p) ELSE Scientific(ds, p - 1)

repr_shortest(sd) == repr_digits(DigitChars(sd.digits), sd.decpt)

\* repr of a float: "inf", "nan", or the shortest digits, with a point and
\* one digit after it at least when the decimal point falls within
\* -4 < decpt <= 16, else with one digit before the point and an exponent
\* of two digits at least.
str_float(x) ==
    IF x.kind = "nan" THEN <<110, 97, 110>>  \* nan
    ELSE IF x.kind = "inf" THEN Sign(x) \o <<105, 110, 102>>  \* inf
    ELSE IF x.m = <<>> THEN Sign(x) \o <<48, 46, 48>>  \* 0.0
    ELSE Sign(x) \o repr_shortest(ShortestDigits(x))

-----------------------------------------------------------------------------
(* Keys and their order: str, float and int, and list.sort.                *)

\* The first place at which two str differ, if there is one within both.
Differing(s, t) ==
    {i \in 1..(IF Len(s) < Len(t) THEN Len(s) ELSE Len(t)) : s[i] # t[i]}

FirstDiffers(s, t, d) ==
    IF d = {} THEN Len(s) < Len(t) ELSE s[SetMin(d)] < t[SetMin(d)]

\* s < t for two str: the first character that differs decides, by its
\* code point; a proper prefix comes first.
str_less(s, t) == FirstDiffers(s, t, Differing(s, t))

\* What int(text) gives: an integer with a sign, of any size, or ValueError
\* (ok is false).
NoInt == [ok |-> FALSE, v |-> Signed(FALSE, <<>>)]

\* sys.get_int_max_str_digits(): int() refuses a text of more digits.
int_max_str_digits == 4300

int_unsigned(neg, s) ==
    IF Len(s) > 0 /\ DigitRun(s) = Len(s) /\ Len(s) <= int_max_str_digits
    THEN [ok |-> TRUE, v |-> Signed(neg, NFromDigits(s))]
    ELSE NoInt

int_signed(s) ==
    int_unsigned(Len(s) > 0 /\ s[1] = 45,  \* -
                 IF Len(s) > 0 /\ s[1] \in {43, 45} THEN Tail(s) ELSE s)  \* +-

int_stripped(s) ==
    IF UnderscoresOk(s) THEN int_signed(WithoutUnderscores(s)) ELSE NoInt

\* int(text) of a field.  Decimal digits and white space beyond ASCII are
\* turned into ASCII and the text is stripped of white space; then an
\* optional sign and digits, underscores between digits.
int_field(t) == int_stripped(c_strip(TransformDecimalAndSpaceToASCII(t)))

K_str == <<115, 116, 114>>  \* str
K_float == <<102, 108, 111, 97, 116>>  \* float
K_int == <<105, 110, 116>>  \* int
K_string == <<115, 116, 114, 105, 110, 103>>  \* string

\* a < b for two keys of one type.
key_less(fcn, a, b) ==
    CASE fcn = K_str   -> str_less(a, b)
      [] fcn = K_float -> FLess(a, b)
      [] fcn = K_int   -> SLess(a, b)

\* list.sort of items, each [k |-> key, v |-> value] (CPython 3.11,
\* Objects/listobject.c): the list is cut into runs, a short run is
\* lengthened by binarysort to minrun items, and the runs are merged.

\* merge_compute_minrun: the length below which a run is lengthened.  The
\* length of the list when it has fewer than 64 items; else from 32 to 64.
RECURSIVE merge_compute_minrun_from(_, _)
merge_compute_minrun_from(n, r) ==
    IF n >= 64 THEN merge_compute_minrun_from(n \div 2, IF n % 2 = 1 THEN 1 ELSE r)
    ELSE n + r

merge_compute_minrun(n) == merge_compute_minrun_from(n, 0)

\* count_run: the length of the run the items start with, ascending (no key
\* less than the key before it) or strictly descending.
Run(items, descending, ends) ==
    [n |-> IF ends = {} THEN Len(items) ELSE SetMin(ends),
     descending |-> descending]

RunUntil(items, fcn, descending) ==
    Run(items, descending,
        {n \in 2..(Len(items) - 1) :
            key_less(fcn, items[n + 1].k, items[n].k) # descending})

count_run(items, fcn) ==
    IF Len(items) = 1 THEN Run(items, FALSE, {})
    ELSE RunUntil(items, fcn, key_less(fcn, items[2].k, items[1].k))

\* binarysort: the place of the pivot among items[l + 1 .. r], found by
\* halving: behind every item whose key the pivot's key is not less than.
RECURSIVE bisect(_, _, _, _, _)
bisect(items, fcn, pivot, l, r) ==
    IF l >= r THEN l
    ELSE IF key_less(fcn, pivot.k, items[l + ((r - l) \div 2) + 1].k)
    THEN bisect(items, fcn, pivot, l, l + ((r - l) \div 2))
    ELSE bisect(items, fcn, pivot, l + ((r - l) \div 2) + 1, r)

\* The item at place start + 1 moved behind the first l items.
Inserted(items, l, start) ==
    [i \in 1..Len(items) |->
        IF i <= l THEN items[i]
        ELSE IF i = l + 1 THEN items[start + 1]
        ELSE IF i <= start + 1 THEN items[i - 1]
        ELSE items[i]]

\* binarysort: the items from place start + 1 on are put, one by one, in
\* their place among those before them.
RECURSIVE binarysort(_, _, _)
binarysort(items, fcn, start) ==
    IF start >= Len(items) THEN items
    ELSE binarysort(Inserted(items,
                             bisect(items, fcn, items[start + 1], 0, start),
                             start),
                    fcn, start + 1)

Reverse(l) == [i \in 1..Len(l) |-> l[Len(l) + 1 - i]]

\* reverse_sortslice: a descending run is turned round.
RunAscending(items, run) ==
    IF run.descending THEN Reverse(SubSeq(items, 1, run.n))
    ELSE SubSeq(items, 1, run.n)

\* A gallop tries the offsets 1, 3, 7, ... from its hint as long as
\* further(ofs) holds and ofs is less than maxofs; GallopStop is the number
\* of the offset at which it stops.
GallopOffset(j) == 2^j - 1

GallopStop(maxofs, further(_)) ==
    SetMin({j \in 1..30 : GallopOffset(j) >= maxofs \/ ~further(GallopOffset(j))})

\* lastofs and ofs after a gallop to the right and to the left of the hint
\* that stopped at offset number j, as places of the array.
GallopedRight(hint, maxofs, j) ==
    [lastofs |-> GallopOffset(j - 1) + hint,
     ofs |-> (IF GallopOffset(j) > maxofs THEN maxofs ELSE GallopOffset(j)) + hint]

GallopedLeft(hint, maxofs, j) ==
    [lastofs |-> hint - (IF GallopOffset(j) > maxofs THEN maxofs ELSE GallopOffset(j)),
     ofs |-> hint - GallopOffset(j - 1)]

\* The binary search that ends gallop_left: a[lastofs - 1] < key <= a[ofs].
RECURSIVE gallop_left_search(_, _, _, _, _)
gallop_left_search(fcn, key, a, lastofs, ofs) ==
    IF lastofs >= ofs THEN ofs
    ELSE IF key_less(fcn, a[lastofs + ((ofs - lastofs) \div 2) + 1].k, key)
    THEN gallop_left_search(fcn, key, a, lastofs + ((ofs - lastofs) \div 2) + 1, ofs)
    ELSE gallop_left_search(fcn, key, a, lastofs, lastofs + ((ofs - lastofs) \div 2))

gallop_left_between(fcn, key, a, g) ==
    gallop_left_search(fcn, key, a, g.lastofs + 1, g.ofs)

\* gallop_left(key, a, n, hint): how many items of a come before key, the
\* items equal to key coming behind it; the search starts at a[hint].
gallop_left(fcn, key, a, hint) ==
    IF key_less(fcn, a[hint + 1].k, key)
    THEN gallop_left_between(fcn, key, a,
             GallopedRight(hint, Len(a) - hint,
                 GallopStop(Len(a) - hint,
                     LAMBDA ofs : key_less(fcn, a[hint + ofs + 1].k, key))))
    ELSE gallop_left_between(fcn, key, a,
             GallopedLeft(hint, hint + 1,
                 GallopStop(hint + 1,
                     LAMBDA ofs : ~key_less(fcn, a[hint - ofs + 1].k, key))))

\* The binary search that ends gallop_right: a[lastofs - 1] <= key < a[ofs].
RECURSIVE gallop_right_search(_, _, _, _, _)
gallop_right_search(fcn, key, a, lastofs, ofs) ==
    IF lastofs >= ofs THEN ofs
    ELSE IF key_less(fcn, key, a[lastofs + ((ofs - lastofs) \div 2) + 1].k)
    THEN gallop_right_search(fcn, key, a, lastofs, lastofs + ((ofs - lastofs) \div 2))
    ELSE gallop_right_search(fcn, key, a, lastofs + ((ofs - lastofs) \div 2) + 1, ofs)

gallop_right_between(fcn, key, a, g) ==
    gallop_right_search(fcn, key, a, g.lastofs + 1, g.ofs)

\* gallop_right(key, a, n, hint): how many items of a come before key, the
\* items equal to key coming before it too.
gallop_right(fcn, key, a, hint) ==
    IF key_less(fcn, key, a[hint + 1].k)
    THEN gallop_right_between(fcn, key, a,
             GallopedLeft(hint, hint + 1,
                 GallopStop(hint + 1,
                     LAMBDA ofs : key_less(fcn, key, a[hint - ofs + 1].k))))
    ELSE gallop_right_between(fcn, key, a,
             GallopedRight(hint, Len(a) - hint,
                 GallopStop(Len(a) - hint,
                     LAMBDA ofs : ~key_less(fcn, key, a[hint + ofs + 1].k))))

MIN_GALLOP == 7

\* A merge of the runs a and b under way: what is left of a and of b, the
\* items merged so far (out), how many items in a row came from a and from
\* b, min_gallop, and where the merge is at: taking one item at a time
\* ("pair"), galloping ("gallop"), or at one of its ends ("Succeed",
\* "CopyB", "CopyA").
Merging(a, b, out, acount, bcount, min_gallop, at) ==
    [a |-> a, b |-> b, out |-> out, acount |-> acount, bcount |-> bcount,
     min_gallop |-> min_gallop, at |-> at]

At(m, at) == Merging(m.a, m.b, m.out, m.acount, m.bcount, m.min_gallop, at)

\* merge_lo fills the place of the two runs from the left.  The first k
\* items of a, or of b, go behind the items merged so far.
FirstOfA(m, k, acount, bcount) ==
    Merging(SubSeq(m.a, k + 1, Len(m.a)), m.b, m.out \o SubSeq(m.a, 1, k),
            acount, bcount, m.min_gallop, m.at)

FirstOfB(m, k, acount, bcount) ==
    Merging(m.a, SubSeq(m.b, k + 1, Len(m.b)), m.out \o SubSeq(m.b, 1, k),
            acount, bcount, m.min_gallop, m.at)

\* The galloping starts (++min_gallop), and ends (++min_gallop again, and
\* the counts start anew).
Galloping(m) == Merging(m.a, m.b, m.out, m.acount, m.bcount, m.min_gallop + 1, "gallop")

Paired(m) == Merging(m.a, m.b, m.out, 0, 0, m.min_gallop + 1, "pair")

\* min_gallop -= min_gallop > 1
Encouraged(m) ==
    Merging(m.a, m.b, m.out, m.acount, m.bcount,
            IF m.min_gallop > 1 THEN m.min_gallop - 1 ELSE m.min_gallop, m.at)

\* One item is taken: the first of b when its key is less than that of the
\* first of a, else the first of a.
lo_pair_b(m) ==
    IF Len(m.b) = 0 THEN At(m, "Succeed")
    ELSE IF m.bcount >= m.min_gallop THEN Galloping(m)
    ELSE m

lo_pair_a(m) ==
    IF Len(m.a) = 1 THEN At(m, "CopyB")
    ELSE IF m.acount >= m.min_gallop THEN Galloping(m)
    ELSE m

lo_pair(m, fcn) ==
    IF key_less(fcn, m.b[1].k, m.a[1].k)
    THEN lo_pair_b(FirstOfB(m, 1, 0, m.bcount + 1))
    ELSE lo_pair_a(FirstOfA(m, 1, m.acount + 1, 0))

\* One round of galloping: the items of a that come before the first of b,
\* that item of b, the items of b that come before the first of a, and
\* that item of a.
lo_gallop_end(m) ==
    IF Len(m.a) = 1 THEN At(m, "CopyB")
    ELSE IF m.acount >= MIN_GALLOP \/ m.bcount >= MIN_GALLOP THEN m
    ELSE Paired(m)

lo_gallop_rest_b(m, k) ==
    IF k > 0 /\ Len(m.b) = 0 THEN At(m, "Succeed")
    ELSE lo_gallop_end(FirstOfA(m, 1, m.acount, m.bcount))

lo_gallop_first_b(m, k) == lo_gallop_rest_b(FirstOfB(m, k, m.acount, k), k)

lo_gallop_b(m, fcn) ==
    IF Len(m.b) = 0 THEN At(m, "Succeed")
    ELSE lo_gallop_first_b(m, gallop_left(fcn, m.a[1].k, m.b, 0))

lo_gallop_rest_a(m, fcn, k) ==
    IF k > 0 /\ Len(m.a) = 1 THEN At(m, "CopyB")
    ELSE IF k > 0 /\ Len(m.a) = 0 THEN At(m, "Succeed")
    ELSE lo_gallop_b(FirstOfB(m, 1, m.acount, m.bcount), fcn)

lo_gallop_a(m, fcn, k) == lo_gallop_rest_a(FirstOfA(m, k, k, m.bcount), fcn, k)

lo_gallop(m, fcn) == lo_gallop_a(Encouraged(m), fcn, gallop_right(fcn, m.b[1].k, m.a, 0))

lo_step(m, fcn) ==
    CASE m.at = "pair" -> lo_pair(m, fcn)
      [] m.at = "gallop" -> lo_gallop(m, fcn)
      [] OTHER -> m

\* n steps of merge_lo, or as many as it takes to its end.
RECURSIVE lo_steps(_, _, _)
lo_steps(m, fcn, n) ==
    IF m.at \notin {"pair", "gallop"} THEN m
    ELSE IF n <= 1 THEN lo_step(m, fcn)
    ELSE lo_steps(lo_steps(m, fcn, n \div 2), fcn, n - (n \div 2))

\* merge_lo begins with the first item of b.
lo_begin(m) ==
    IF Len(m.b) = 0 THEN At(m, "Succeed")
    ELSE IF Len(m.a) = 1 THEN At(m, "CopyB")
    ELSE m

\* Succeed: what is left of a goes before what is left of b.  CopyB: the
\* last item of a goes behind what is left of b.
lo_end(m) ==
    [items |-> IF m.at = "CopyB" THEN m.out \o m.b \o m.a ELSE m.out \o m.a \o m.b,
     min_gallop |-> m.min_gallop]

\* merge_lo(ssa, na, ssb, nb): the two runs merged, a being the shorter
\* one.  [items, min_gallop].
merge_lo(a, b, fcn, min_gallop) ==
    lo_end(lo_steps(lo_begin(FirstOfB(Merging(a, b, <<>>, 0, 0, min_gallop, "pair"),
                                      1, 0, 0)),
                    fcn, Len(a) + Len(b)))

\* merge_hi fills the place of the two runs from the right.  The last k
\* items of a, or of b, go before the items merged so far.
LastOfA(m, k, acount, bcount) ==
    Merging(SubSeq(m.a, 1, Len(m.a) - k), m.b,
            SubSeq(m.a, Len(m.a) - k + 1, Len(m.a)) \o m.out,
            acount, bcount, m.min_gallop, m.at)

LastOfB(m, k, acount, bcount) ==
    Merging(m.a, SubSeq(m.b, 1, Len(m.b) - k),
            SubSeq(m.b, Len(m.b) - k + 1, Len(m.b)) \o m.out,
            acount, bcount, m.min_gallop, m.at)

\* One item is taken: the last of a when the key of the last of b is less
\* than its key, else the last of b.
hi_pair_a(m) ==
    IF Len(m.a) = 0 THEN At(m, "Succeed")
    ELSE IF m.acount >= m.min_gallop THEN Galloping(m)
    ELSE m

hi_pair_b(m) ==
    IF Len(m.b) = 1 THEN At(m, "CopyA")
    ELSE IF m.bcount >= m.min_gallop THEN Galloping(m)
    ELSE m

hi_pair(m, fcn) ==
    IF key_less(fcn, m.b[Len(m.b)].k, m.a[Len(m.a)].k)
    THEN hi_pair_a(LastOfA(m, 1, m.acount + 1, 0))
    ELSE hi_pair_b(LastOfB(m, 1, 0, m.bcount + 1))

\* One round of galloping: the items of a that come behind the last of b,
\* that item of b, the items of b that come behind the last of a, and that
\* item of a.
hi_gallop_end(m) ==
    IF Len(m.a) = 0 THEN At(m, "Succeed")
    ELSE IF m.acount >= MIN_GALLOP \/ m.bcount >= MIN_GALLOP THEN m
    ELSE Paired(m)

hi_gallop_rest_b(m, k) ==
    IF k > 0 /\ Len(m.b) = 1 THEN At(m, "CopyA")
    ELSE IF k > 0 /\ Len(m.b) = 0 THEN At(m, "Succeed")
    ELSE hi_gallop_end(LastOfA(m, 1, m.acount, m.bcount))

hi_gallop_last_b(m, k) == hi_gallop_rest_b(LastOfB(m, k, m.acount, k), k)

hi_gallop_b(m, fcn) ==
    IF Len(m.b) = 1 THEN At(m, "CopyA")
    ELSE hi_gallop_last_b(m, Len(m.b)
                             - gallop_left(fcn, m.a[Len(m.a)].k, m.b, Len(m.b) - 1))

hi_gallop_rest_a(m, fcn, k) ==
    IF k > 0 /\ Len(m.a) = 0 THEN At(m, "Succeed")
    ELSE hi_gallop_b(LastOfB(m, 1, m.acount, m.bcount), fcn)

hi_gallop_a(m, fcn, k) == hi_gallop_rest_a(LastOfA(m, k, k, m.bcount), fcn, k)

hi_gallop(m, fcn) ==
    hi_gallop_a(Encouraged(m), fcn,
                Len(m.a) - gallop_right(fcn, m.b[Len(m.b)].k, m.a, Len(m.a) - 1))

hi_step(m, fcn) ==
    CASE m.at = "pair" -> hi_pair(m, fcn)
      [] m.at = "gallop" -> hi_gallop(m, fcn)
      [] OTHER -> m

\* n steps of merge_hi, or as many as it takes to its end.
RECURSIVE hi_steps(_, _, _)
hi_steps(m, fcn, n) ==
    IF m.at \notin {"pair", "gallop"} THEN m
    ELSE IF n <= 1 THEN hi_step(m, fcn)
    ELSE hi_steps(hi_steps(m, fcn, n \div 2), fcn, n - (n \div 2))

\* merge_hi begins with the last item of a.
hi_begin(m) ==
    IF Len(m.a) = 0 THEN At(m, "Succeed")
    ELSE IF Len(m.b) = 1 THEN At(m, "CopyA")
    ELSE m

\* Succeed: what is left of b goes behind what is left of a.  CopyA: the
\* first item of b goes before what is left of a.
hi_end(m) ==
    [items |-> IF m.at = "CopyA" THEN m.b \o m.a \o m.out ELSE m.a \o m.b \o m.out,
     min_gallop |-> m.min_gallop]

\* merge_hi(ssa, na, ssb, nb): the two runs merged, b being the shorter
\* one.  [items, min_gallop].
merge_hi(a, b, fcn, min_gallop) ==
    hi_end(hi_steps(hi_begin(LastOfA(Merging(a, b, <<>>, 0, 0, min_gallop, "pair"),
                                     1, 0, 0)),
                    fcn, Len(a) + Len(b)))

\* The state of a sort: the list, the runs to be merged (pending, each
\* with its start, its length and its power) and min_gallop.
Sorting(items, pending, min_gallop) ==
    [items |-> items, pending |-> pending, min_gallop |-> min_gallop]

Pending(start, len, power) == [start |-> start, len |-> len, power |-> power]

\* merge_init
merge_init(items) == Sorting(items, <<>>, MIN_GALLOP)

\* The runs i and i + 1 of pending become one run; i is the second or the
\* third run from the top.
PendingMerged(p, i) ==
    SubSeq(p, 1, i)
    \o <<Pending(p[i + 1].start, p[i + 1].len + p[i + 2].len, p[i + 1].power)>>
    \o SubSeq(p, i + 3, Len(p))

\* The list with the items from place from + 1 to place to replaced.
Replaced(items, from, to, merged) ==
    SubSeq(items, 1, from) \o merged \o SubSeq(items, to + 1, Len(items))

MergedAt(ms, i, from, to, merged) ==
    Sorting(Replaced(ms.items, from, to, merged.items),
            PendingMerged(ms.pending, i), merged.min_gallop)

Unmerged(ms, i) == Sorting(ms.items, PendingMerged(ms.pending, i), ms.min_gallop)

\* merge_at, the items of b that come behind the last of a left out: the
\* runs a and b, of which a starts at place from + 1.
merge_runs(ms, fcn, i, a, b, from) ==
    MergedAt(ms, i, from, from + Len(a) + Len(b),
             IF Len(a) <= Len(b) THEN merge_lo(a, b, fcn, ms.min_gallop)
             ELSE merge_hi(a, b, fcn, ms.min_gallop))

\* merge_at, the items of a that come before the first of b left out.
merge_from_a(ms, fcn, i, a, b, from, nb) ==
    IF nb <= 0 THEN Unmerged(ms, i)
    ELSE merge_runs(ms, fcn, i, a, SubSeq(b, 1, nb), from)

merge_up_to_b(ms, fcn, i, a, b, from) ==
    IF Len(a) = 0 THEN Unmerged(ms, i)
    ELSE merge_from_a(ms, fcn, i, a, b, from,
                      gallop_left(fcn, a[Len(a)].k, b, Len(b) - 1))

merge_a_b(ms, fcn, i, a, b, from, k) ==
    merge_up_to_b(ms, fcn, i, SubSeq(a, k + 1, Len(a)), b, from + k)

RunOf(items, p) == SubSeq(items, p.start + 1, p.start + p.len)

\* merge_at(ms, i): the runs i and i + 1 of pending are merged.
merge_at(ms, fcn, i) ==
    merge_a_b(ms, fcn, i, RunOf(ms.items, ms.pending[i + 1]),
              RunOf(ms.items, ms.pending[i + 2]), ms.pending[i + 1].start,
              gallop_right(fcn, ms.items[ms.pending[i + 2].start + 1].k,
                           RunOf(ms.items, ms.pending[i + 1]), 0))

\* powerloop(s1, n1, n2, n): the power of the boundary between a run of n1
\* items that starts at s1 and the run of n2 items behind it, in a list of
\* n items.
RECURSIVE powerloop_from(_, _, _, _)
powerloop_from(a, b, n, result) ==
    IF a >= n THEN powerloop_from(2 * (a - n), 2 * (b - n), n, result + 1)
    ELSE IF b >= n THEN result + 1
    ELSE powerloop_from(2 * a, 2 * b, n, result + 1)

powerloop(s1, n1, n2, n) == powerloop_from(2 * s1 + n1, 2 * s1 + n1 + n1 + n2, n, 0)

\* The loop of found_new_run: the run under the top is merged with the top
\* as long as its power is greater.
RECURSIVE merge_powers(_, _, _)
merge_powers(ms, fcn, power) ==
    IF Len(ms.pending) > 1 /\ ms.pending[Len(ms.pending) - 1].power > power
    THEN merge_powers(merge_at(ms, fcn, Len(ms.pending) - 2), fcn, power)
    ELSE ms

Top(p) == p[Len(p)]

WithPower(ms, power) ==
    Sorting(ms.items,
            SubSeq(ms.pending, 1, Len(ms.pending) - 1)
            \o <<Pending(Top(ms.pending).start, Top(ms.pending).len, power)>>,
            ms.min_gallop)

new_run_power(ms, fcn, power) == WithPower(merge_powers(ms, fcn, power), power)

\* found_new_run(ms, n2): a run of n2 items was found behind the runs of
\* pending.
found_new_run(ms, fcn, n2) ==
    IF Len(ms.pending) = 0 THEN ms
    ELSE new_run_power(ms, fcn,
                       powerloop(Top(ms.pending).start, Top(ms.pending).len, n2,
                                 Len(ms.items)))

\* merge_force_collapse: the runs of pending are merged until one is left.
RECURSIVE merge_force_collapse(_, _)
merge_force_collapse(ms, fcn) ==
    IF Len(ms.pending) <= 1 THEN ms
    ELSE IF /\ Len(ms.pending) > 2
            /\ ms.pending[Len(ms.pending) - 2].len < Top(ms.pending).len
    THEN merge_force_collapse(merge_at(ms, fcn, Len(ms.pending) - 3), fcn)
    ELSE merge_force_collapse(merge_at(ms, fcn, Len(ms.pending) - 2), fcn)

\* The run is pushed on pending; its power is set when the next run is
\* found and is not read before.
Pushed(ms, lo, n) ==
    Sorting(ms.items, Append(ms.pending, Pending(lo, n, 0)), ms.min_gallop)

\* The items from place lo + 1 on are the run found there, lengthened to
\* force items when it is shorter than minrun.
RunPlaced(ms, lo, run) == Sorting(Replaced(ms.items, lo, lo + Len(run), run),
                                  ms.pending, ms.min_gallop)

Forced(rest, fcn, run, force) ==
    binarysort(RunAscending(rest, run) \o SubSeq(rest, run.n + 1, force), fcn, run.n)

Force(run, minrun, nremaining) ==
    IF run.n >= minrun THEN run.n
    ELSE IF nremaining <= minrun THEN nremaining
    ELSE minrun

\* The loop of list_sort_impl over the runs, lo items being in runs
\* already.
RECURSIVE sort_runs(_, _, _, _)
sort_pushed(ms, fcn, lo, minrun, n) ==
    sort_runs(Pushed(found_new_run(ms, fcn, n), lo, n), fcn, lo + n, minrun)

sort_forced(ms, fcn, lo, minrun, run) ==
    sort_pushed(RunPlaced(ms, lo, run), fcn, lo, minrun, Len(run))

sort_run(ms, fcn, lo, minrun, rest, run) ==
    sort_forced(ms, fcn, lo, minrun,
                Forced(rest, fcn, run, Force(run, minrun, Len(rest))))

sort_rest(ms, fcn, lo, minrun, rest) ==
    sort_run(ms, fcn, lo, minrun, rest, count_run(rest, fcn))

sort_runs(ms, fcn, lo, minrun) ==
    IF lo >= Len(ms.items) THEN ms
    ELSE sort_rest(ms, fcn, lo, minrun, SubSeq(ms.items, lo + 1, Len(ms.items)))

\* The list sorted by its keys.
sort_items(items, fcn) ==
    IF Len(items) < 2 THEN items
    ELSE merge_force_collapse(sort_runs(merge_init(items), fcn, 0,
                                        merge_compute_minrun(Len(items))),
                              fcn).items

-----------------------------------------------------------------------------
(* The reductions of fcn_set.  A reduction yields a value:                 *)
(*   tag "str"   - a text, s                                               *)
(*   tag "float" - a float, q                                              *)
(*   tag "none"  - None                                                    *)
(* or raises: tag "ValueError" (float() of a text that is no number),      *)
(* "StatisticsError" (stdev of fewer than two values), "AttributeError"    *)
(* (stdev of an infinity or a nan: statistics.stdev of CPython 3.11 asks   *)
(* a float for its numerator), "OverflowError" (a stdev beyond the largest *)
(* float).                                                                 *)

Value(tag, s, q) == [tag |-> tag, s |-> s, q |-> q]

FloatValue(q) == Value("float", <<>>, q)

Raise(tag) == Value(tag, <<>>, Zero(FALSE))

\* sum(l): 0 + l[0] + l[1] + ..., each sum rounded to a float.  sum_from
\* adds to s the floats of l from place lo to place hi, one after the
\* other; a sum that is a nan stays one.
RECURSIVE sum_from(_, _, _, _)
sum_from(s, l, lo, hi) ==
    IF lo > hi \/ s.kind = "nan" THEN s
    ELSE IF lo = hi THEN FAdd(s, l[lo])
    ELSE sum_from(sum_from(s, l, lo, (lo + hi) \div 2), l, ((lo + hi) \div 2) + 1, hi)

sum(l) == sum_from(Zero(FALSE), l, 1, Len(l))

Lesser(m, x) == IF FLess(x, m) THEN x ELSE m

Greater(m, x) == IF FLess(m, x) THEN x ELSE m

\* min(l), max(l): the first item, replaced by every later item that is
\* less (greater) than what is kept; no item is less or greater than a
\* nan, so a nan that is kept stays.
RECURSIVE min_from(_, _, _, _)
min_from(m, l, lo, hi) ==
    IF lo > hi \/ m.kind = "nan" THEN m
    ELSE IF lo = hi THEN Lesser(m, l[lo])
    ELSE min_from(min_from(m, l, lo, (lo + hi) \div 2), l, ((lo + hi) \div 2) + 1, hi)

min(l) == min_from(l[1], l, 2, Len(l))

RECURSIVE max_from(_, _, _, _)
max_from(m, l, lo, hi) ==
    IF lo > hi \/ m.kind = "nan" THEN m
    ELSE IF lo = hi THEN Greater(m, l[lo])
    ELSE max_from(max_from(m, l, lo, (lo + hi) \div 2), l, ((lo + hi) \div 2) + 1, hi)

max(l) == max_from(l[1], l, 2, Len(l))

LeastOf(l, nz) ==
    IF nz = {} THEN 0
    ELSE l[CHOOSE i \in nz : \A j \in nz : l[i].e <= l[j].e].e

\* The least exponent of the floats of l that are not zero.
LeastExp(l) == LeastOf(l, {i \in 1..Len(l) : l[i].m # <<>>})

\* The sum of the finite floats of l, exactly: the integer it is in units
\* of 2^e; and the sum of their squares in units of 2^(2e).
RECURSIVE ExactSumRange(_, _, _, _)
ExactSumRange(l, e, lo, hi) ==
    IF lo > hi THEN Signed(FALSE, <<>>)
    ELSE IF lo = hi THEN Signed(l[lo].neg, NShl(l[lo].m, l[lo].e - e))
    ELSE SAdd(ExactSumRange(l, e, lo, (lo + hi) \div 2),
              ExactSumRange(l, e, ((lo + hi) \div 2) + 1, hi))

ExactSum(l, e) == ExactSumRange(l, e, 1, Len(l))

RECURSIVE ExactSumOfSquaresRange(_, _, _, _)
ExactSumOfSquaresRange(l, e, lo, hi) ==
    IF lo > hi THEN <<>>
    ELSE IF lo = hi THEN Square(NShl(l[lo].m, l[lo].e - e))
    ELSE NAdd(ExactSumOfSquaresRange(l, e, lo, (lo + hi) \div 2),
              ExactSumOfSquaresRange(l, e, ((lo + hi) \div 2) + 1, hi))

ExactSumOfSquares(l, e) == ExactSumOfSquaresRange(l, e, 1, Len(l))

\* m * 2^k, cut to a natural; k may be negative.
Shifted(m, k) == IF k >= 0 THEN NShl(m, k) ELSE NShr(m, -k)

\* Does cutting m * 2^k to a natural lose anything?
Cut(m, k) == k < 0 /\ ~NLowZero(m, -k)

MeanRounded(neg, d, s, cut) == RoundDouble(neg, d.q, s, cut \/ d.r # <<>>)

MeanScaled(t, n, e, k) ==
    MeanRounded(t.neg, NDivMod(Shifted(t.m, k), NFromInt(n)), e - k,
                Cut(t.m, k))

\* The sum t in units of 2^e over n: the quotient is taken in units of
\* 2^(e - k), k such that it has 57 bits or a few more.
MeanOf(t, n, e) == MeanScaled(t, n, e, 58 + Bits(n) - NBitLen(t.m))

MeanAt(l, e) == MeanOf(ExactSum(l, e), Len(l), e)

\* statistics.mean: the exact sum divided by the count, rounded once to a
\* float; with an infinity or a nan in l, the float sum of those.
mean(l) ==
    IF \E i \in 1..Len(l) : l[i].kind # "fin"
    THEN sum(SelectSeq(l, LAMBDA x : x.kind # "fin"))
    ELSE MeanAt(l, LeastExp(l))

ValuesOfItems(s) == [i \in 1..Len(s) |-> s[i].v]

\* sorted(l)
sorted(l) ==
    ValuesOfItems(sort_items([i \in 1..Len(l) |-> [k |-> l[i], v |-> l[i]]],
                             K_float))

Middle(d, i, odd) == IF odd THEN d[i + 1] ELSE FHalf(FAdd(d[i], d[i + 1]))

\* statistics.median: the middle element, or (a + b) / 2 of the two middle
\* ones.
median(l) == Middle(sorted(l), Len(l) \div 2, Len(l) % 2 = 1)

StdevValue(x) ==
    IF x.kind = "inf" THEN Raise("OverflowError") ELSE FloatValue(x)

StdevRounded(r, cut, s) ==
    StdevValue(RoundDouble(FALSE, r.root, s, cut \/ r.rem # <<>>))

StdevRoot(t, cut, s) == StdevRounded(NSqrt(t.q), cut \/ t.r # <<>>, s)

StdevScaled(nv, n, e, k) ==
    StdevRoot(NDivMod(Shifted(nv, 2 * k), NFromInt(n * (n - 1))),
              Cut(nv, 2 * k), e - k)

HalfShift(need) ==
    IF need > 0 THEN (need + 1) \div 2 ELSE -((-need) \div 2)

\* The root of nv / (n * (n - 1)) in units of 2^e: it is taken of the
\* variance in units of 4^-k, k such that the root has 55 bits or a few
\* more.
StdevOf(nv, n, e) ==
    StdevScaled(nv, n, e, HalfShift(112 + Bits(n * (n - 1)) - NBitLen(nv)))

StdevAt(l, n, e) ==
    StdevOf(NSub(NMulSmall(ExactSumOfSquares(l, e), n),
                 Square(ExactSum(l, e).m)),
            n, e)

\* statistics.stdev: the square root, rounded once to a float, of the exact
\* sample variance (n * sxx - sx * sx) / (n * (n - 1)); fewer than two
\* values raise StatisticsError.
stdev(l) ==
    IF Len(l) < 2 THEN Raise("StatisticsError")
    ELSE IF \E i \in 1..Len(l) : l[i].kind # "fin" THEN Raise("AttributeError")
    ELSE StdevAt(l, Len(l), LeastExp(l))

\* trivial_multiple that hands a single entry on as it is.
trivial_multiple_plain(l) == stdev(l)

\* trivial_multiple(statistics.stdev): a single entry is duplicated.
trivial_multiple(l) == stdev(IF Len(l) > 1 THEN l ELSE <<l[1], l[1]>>)

\* The names of the registry.
F_sum == <<115, 117, 109>>  \* sum
F_min == <<109, 105, 110>>  \* min
F_max == <<109, 97, 120>>  \* max
F_mean == <<109, 101, 97, 110>>  \* mean
F_median == <<109, 101, 100, 105, 97, 110>>  \* median
F_stdev == <<115, 116, 100, 101, 118>>  \* stdev
F_first == <<102, 105, 114, 115, 116>>  \* first
F_last == <<108, 97, 115, 116>>  \* last
F_ignore == <<105, 103, 110, 111, 114, 101>>  \* ignore

Numeric == {F_sum, F_min, F_max, F_mean, F_median, F_stdev}

fcn_names == Numeric \cup {F_first, F_last, F_ignore}

\* [float(n) for n in l], each with whether it is a number; the list is
\* built once, before f is applied to it.
floats(l) == <<>> \o [i \in 1..Len(l) |-> float(l[i])]

\* What float(n) gave, for each n.
Numbers(ps) == [i \in 1..Len(ps) |-> ps[i].q]

Lenient(ps) ==
    [i \in 1..Len(ps) |-> IF ps[i].ok THEN ps[i].q ELSE Zero(FALSE)]

\* f(l) for the function f that fcn_set wraps under the name.
wrapped(name, fl) ==
    CASE name = F_sum    -> FloatValue(sum(fl))
      [] name = F_min    -> FloatValue(min(fl))
      [] name = F_max    -> FloatValue(max(fl))
      [] name = F_mean   -> FloatValue(mean(fl))
      [] name = F_median -> FloatValue(median(fl))
      [] name = F_stdev  -> trivial_multiple(fl)

numberified(name, ps) ==
    IF \E i \in 1..Len(ps) : ~ps[i].ok
    THEN Raise("ValueError")
    ELSE wrapped(name, Numbers(ps))

\* numberify that takes a text that is no number for 0.
numberify_lenient(name, l) == wrapped(name, Lenient(floats(l)))

\* numberify(f): f of the floats of l; ValueError when a text is no number.
numberify(name, l) == numberified(name, floats(l))

FirstOrLast(name, ps) ==
    IF \E i \in 1..Len(ps) : ~ps[i].ok
    THEN Raise("ValueError")
    ELSE FloatValue(ps[IF name = F_first THEN 1 ELSE Len(ps)].q)

\* fcn_set with first and last wrapped in numberify like the others.
fcn_set_all_numeric(name, l) ==
    CASE name \in Numeric -> numberify(name, l)
      [] name \in {F_first, F_last} -> FirstOrLast(name, floats(l))
      [] name = F_ignore  -> Value("none", <<>>, Zero(FALSE))

\* fcn_set[name](l)
fcn_set(name, l) ==
    CASE name \in Numeric -> numberify(name, l)
      [] name = F_first   -> Value("str", l[1], Zero(FALSE))
      [] name = F_last    -> Value("str", l[Len(l)], Zero(FALSE))
      [] name = F_ignore  -> Value("none", <<>>, Zero(FALSE))

Raised(v) ==
    v.tag \in {"ValueError", "StatisticsError", "AttributeError", "OverflowError"}

\* str(v) of a reduction's value.
str(v) ==
    CASE v.tag = "str"   -> v.s
      [] v.tag = "float" -> str_float(v.q)
      [] v.tag = "none"  -> <<78, 111, 110, 101>>  \* None

-----------------------------------------------------------------------------
(* The field:function pairs of the command line (ff).                      *)

\* "$" of the pattern: the end of the text, or just before a final newline.
BeforeFinalNewline(s) ==
    IF Len(s) > 0 /\ s[Len(s)] = 10 THEN SubSeq(s, 1, Len(s) - 1) ELSE s  \* \n

\* Is t, from place k + 1 on, ":" and one or more of [a-z]?
ColonAndLower(t, k) ==
    /\ k + 2 <= Len(t)
    /\ t[k + 1] = 58  \* :
    /\ \A i \in (k + 2)..Len(t) : IsLower(t[i])

\* "^([0-9]+):([a-z]+)$" on all of t, k being the digits t starts with.
re_match(t, k) == k >= 1 /\ ColonAndLower(t, k)

re_groups(t, k) == <<SubSeq(t, 1, k), SubSeq(t, k + 2, Len(t))>>

\* re.search("^([0-9]+):([a-z]+)$", s): None, or <<group(1), group(2)>>.
re_search(s) ==
    IF re_match(s, DigitRun(s)) THEN re_groups(s, DigitRun(s))
    ELSE IF re_match(BeforeFinalNewline(s), DigitRun(BeforeFinalNewline(s)))
    THEN re_groups(BeforeFinalNewline(s), DigitRun(BeforeFinalNewline(s)))
    ELSE None

MsgUnable == <<117, 110, 97, 98, 108, 101, 32, 116, 111, 32, 105, 110, 116, 101, 114, 112, 114, 101, 116, 32, 102, 105, 101, 108, 100, 58, 102, 117, 110, 99, 116, 105, 111, 110, 32>>

MsgNoSuch == <<110, 111, 32, 115, 117, 99, 104, 32, 102, 105, 101, 108, 100, 58, 102, 117, 110, 99, 116, 105, 111, 110, 32, 111, 112, 101, 114, 97, 116, 105, 111, 110, 58, 32>>

\* What ff gives: the message of fatal(), or the exception raised, or the
\* pair.
Fatal(msg) == [fatal |-> <<msg>>, raised |-> "", pair |-> <<>>]

Pair(n, f) == [fatal |-> None, raised |-> "", pair |-> <<n, f>>]

\* int(m.group(1)), a natural of any size, with what goes with it; int()
\* refuses more than 4300 digits with ValueError.
IntPair(digits, f) ==
    IF Len(digits) > int_max_str_digits
    THEN [fatal |-> None, raised |-> "ValueError", pair |-> <<>>]
    ELSE Pair(NFromDigits(digits), f)

ff_match(s, m) ==
    IF m = None THEN Fatal(MsgUnable \o s)
    ELSE IF m[2] \notin fcn_names THEN Fatal(MsgNoSuch \o m[2])
    ELSE IntPair(m[1], m[2])

\* ff(s): [fatal |-> the message of fatal()], [raised |-> the exception of
\* int()] or [pair |-> <<int, name>>].
ff(s) == ff_match(s, re_search(s))

\* field_functions as a table keyed by the field index: a later pair
\* replaces an earlier pair of the same field.
parse_field_functions_last_wins(a) ==
    LET last == {i \in 1..Len(a) :
                    \A j \in (i + 1)..Len(a) : ff(a[j]).pair[1] # ff(a[i]).pair[1]}
        Nth(k) == CHOOSE i \in last : Cardinality({j \in last : j < i}) = k - 1
    IN  [k \in 1..Cardinality(last) |-> ff(a[Nth(k)]).pair]

\* Line 128: field_functions = [ff(s) for s in args.field_function]
parse_field_functions(a) == [i \in 1..Len(a) |-> ff(a[i]).pair]

\* Line 129: sfield_set = set(set([p[0] for p in field_functions]))
field_set(ffs) == {ffs[i][1] : i \in 1..Len(ffs)}

-----------------------------------------------------------------------------
(* The closures of op_merge.                                               *)

\* args.delimiter, at its default.
delimiter == <<44>>  \* ,

\* l[n] of a list, n a natural: is there such an item, and the item.
HasItem(l, n) == NCmp(n, NFromInt(Len(l))) < 0

Item(l, n) == l[NToInt(n) + 1]

\* args.delimiter.join(l); join_range: of the items of l from place lo to
\* place hi.
RECURSIVE join_range(_, _, _, _)
join_range(d, l, lo, hi) ==
    IF lo > hi THEN <<>>
    ELSE IF lo = hi THEN l[lo]
    ELSE join_range(d, l, lo, (lo + hi) \div 2) \o d
         \o join_range(d, l, ((lo + hi) \div 2) + 1, hi)

join(d, l) == join_range(d, l, 1, Len(l))

\* make_comparable that builds its list back to front.
RECURSIVE make_comparable_reversed(_, _)
make_comparable_reversed(l, sfs) ==
    IF Len(l) = 0 THEN <<>>
    ELSE (IF NFromInt(Len(l) - 1) \notin sfs THEN <<l[Len(l)]>> ELSE <<>>)
         \o make_comparable_reversed(SubSeq(l, 1, Len(l) - 1), sfs)

\* make_comparable(l): the fields of l whose index is not aggregated;
\* make_comparable_range: those of the indices lo to hi.
RECURSIVE make_comparable_range(_, _, _, _)
make_comparable_range(l, sfs, lo, hi) ==
    IF lo > hi THEN <<>>
    ELSE IF lo = hi THEN (IF NFromInt(lo) \notin sfs THEN <<l[lo + 1]>> ELSE <<>>)
    ELSE make_comparable_range(l, sfs, lo, (lo + hi) \div 2)
         \o make_comparable_range(l, sfs, ((lo + hi) \div 2) + 1, hi)

make_comparable(l, sfs) == make_comparable_range(l, sfs, 0, Len(l) - 1)

\* add_mergeable that walks the pairs by ascending field index.
LeastIndex(ffs) ==
    CHOOSE j \in 1..Len(ffs) :
        \A i \in 1..Len(ffs) :
            \/ NCmp(ffs[j][1], ffs[i][1]) < 0
            \/ ffs[j][1] = ffs[i][1] /\ j <= i

Without(ffs, j) ==
    [i \in 1..(Len(ffs) - 1) |-> IF i < j THEN ffs[i] ELSE ffs[i + 1]]

RECURSIVE add_mergeable_by_index(_, _, _)
append_by_index(l, ffs, av, v) ==
    IF Raised(v) THEN [raised |-> v.tag, l |-> l]
    ELSE add_mergeable_by_index(Append(l, str(v)), ffs, av)

append_least(l, ffs, av, j) ==
    append_by_index(l, Without(ffs, j), av, fcn_set(ffs[j][2], av[ffs[j][1]]))

add_mergeable_by_index(l, ffs, av) ==
    IF Len(ffs) = 0 THEN [raised |-> "", l |-> l]
    ELSE append_least(l, ffs, av, LeastIndex(ffs))

\* Line 144 for the first pair of ffs, v being f(aggregate_values[n]): an
\* exception of f ends the loop, else str(v) is appended and the loop goes
\* on with the pairs that follow.
RECURSIVE add_mergeable(_, _, _)
append_result(l, ffs, av, v) ==
    IF Raised(v) THEN [raised |-> v.tag, l |-> l]
    ELSE add_mergeable(Append(l, str(v)), Tail(ffs), av)

\* add_mergeable(l): appends str(f(aggregate_values[n])) for every pair, in
\* the order of field_functions.  [raised, l].
add_mergeable(l, ffs, av) ==
    IF Len(ffs) = 0 THEN [raised |-> "", l |-> l]
    ELSE append_result(l, ffs, av, fcn_set(ffs[1][2], av[ffs[1][1]]))

\* "for n in sfield_set" takes the elements of the set in an order the
\* language leaves open; order is that order, a list of the elements of
\* the set.  The loops of lines 149-150 and 161-162 run until row[n]
\* raises IndexError: Reached is the number of elements they get through,
\* Touched the elements themselves.
Reached(row, order) ==
    LET missing == {i \in 1..Len(order) : ~HasItem(row, order[i])}
    IN  IF missing = {} THEN Len(order) ELSE SetMin(missing) - 1

Touched(row, order) == {order[i] : i \in 1..Reached(row, order)}

\* reset_cmp_line that keeps the values of the group before.
reset_cmp_line_keeping(row, sfs, av, order) ==
    [raised |-> IF Reached(row, order) < Len(order) THEN "IndexError" ELSE "",
     cmp_line |-> <<make_comparable(row, sfs)>>,
     aggregate_values |->
         [n \in DOMAIN av \cup Touched(row, order) |->
             IF n \notin Touched(row, order) THEN av[n]
             ELSE IF n \in DOMAIN av THEN Append(av[n], Item(row, n))
             ELSE <<Item(row, n)>>]]

\* reset_cmp_line(row): [raised, cmp_line, aggregate_values].  cmp_line is
\* assigned first; then every n the loop reaches gets the fresh list
\* [row[n]], and row[n] of a row without a field n raises IndexError: the
\* entries written before stay written, the others are as they were.
reset_cmp_line(row, sfs, av, order) ==
    [raised |-> IF Reached(row, order) < Len(order) THEN "IndexError" ELSE "",
     cmp_line |-> <<make_comparable(row, sfs)>>,
     aggregate_values |->
         [n \in DOMAIN av \cup Touched(row, order) |->
             IF n \in Touched(row, order) THEN <<Item(row, n)>> ELSE av[n]]]

\* same_group that looks at the first field alone.
same_group_first_field(row, cl, sfs) ==
    LET key == make_comparable(row, sfs)
    IN  IF Len(key) = 0 \/ Len(cl[1]) = 0 THEN key = cl[1]
        ELSE key[1] = cl[1][1]

\* same_group with the projection forgotten: the whole row is compared.
same_group_unprojected(row, cl, sfs) == row = cl[1]

\* Line 160: does the row belong to the open group?
same_group(row, cl, sfs) == make_comparable(row, sfs) = cl[1]

\* extend_group that assigns the row's value where it should append it.
extend_group_last_only(row, av, sfs, order) ==
    [raised |-> IF Reached(row, order) < Len(order) THEN "IndexError" ELSE "",
     aggregate_values |->
         [n \in DOMAIN av |->
             IF n \in Touched(row, order) THEN <<Item(row, n)>> ELSE av[n]]]

\* extend_group that passes over a field the row does not have.
extend_group_skipping(row, av, sfs, order) ==
    [raised |-> "",
     aggregate_values |->
         [n \in DOMAIN av |->
             IF HasItem(row, n) THEN Append(av[n], Item(row, n)) ELSE av[n]]]

\* Lines 161-162: the row's aggregated fields join the open group, one
\* list after the other until row[n] raises IndexError.
extend_group(row, av, sfs, order) ==
    [raised |-> IF Reached(row, order) < Len(order) THEN "IndexError" ELSE "",
     aggregate_values |->
         [n \in DOMAIN av |->
             IF n \in Touched(row, order) THEN Append(av[n], Item(row, n))
             ELSE av[n]]]

\* Line 166 (172): the list add_mergeable extended is printed, unless
\* add_mergeable raised.
print_line(printable, out) ==
    [raised   |-> printable.raised,
     cmp_line |-> <<printable.l>>,
     stdout   |-> IF printable.raised # "" THEN out
                  ELSE Append(out, join(delimiter, printable.l))]

\* Lines 164-166 and 171-172: the results are appended, in place, to the
\* list cmp_line names, and the list is printed.  [raised, cmp_line, stdout].
flush(cl, ffs, av, out) == print_line(add_mergeable(cl[1], ffs, av), out)

\* The state of the closures between two rows.
MergeState(raised, cl, av, out) ==
    [raised |-> raised, cmp_line |-> cl, aggregate_values |-> av, stdout |-> out]

\* The state after reset_cmp_line gave r, after extend_group gave e, and
\* after the flush gave f.
started(r, out) == MergeState(r.raised, r.cmp_line, r.aggregate_values, out)

extended(e, st) ==
    MergeState(e.raised, st.cmp_line, e.aggregate_values, st.stdout)

flushed(f, st) == MergeState(f.raised, f.cmp_line, st.aggregate_values, f.stdout)

\* Line 167 after the flush f of lines 164-166, unless that raised.
next_group(f, row, st, sfs, order) ==
    IF f.raised # "" THEN flushed(f, st)
    ELSE started(reset_cmp_line(row, sfs, st.aggregate_values, order), f.stdout)

\* collect_and_aggregate that tests "not cmp_line" where it should test
\* "cmp_line is None": an empty list passes for no open group.
collect_and_aggregate_falsy(row, st, ffs, sfs, order) ==
    IF st.cmp_line = None \/ st.cmp_line = <<<<>>>>
    THEN started(reset_cmp_line(row, sfs, st.aggregate_values, order), st.stdout)
    ELSE IF same_group(row, st.cmp_line, sfs)
    THEN extended(extend_group(row, st.aggregate_values, sfs, order), st)
    ELSE next_group(flush(st.cmp_line, ffs, st.aggregate_values, st.stdout),
                    row, st, sfs, order)

next_group_stale_key(f, r, st) ==
    IF f.raised # "" THEN flushed(f, st)
    ELSE MergeState(r.raised, f.cmp_line, r.aggregate_values, f.stdout)

\* collect_and_aggregate that, at a boundary, starts the lists of the new
\* group but leaves cmp_line naming the list that was printed.
collect_and_aggregate_stale_key(row, st, ffs, sfs, order) ==
    IF st.cmp_line = None
    THEN started(reset_cmp_line(row, sfs, st.aggregate_values, order), st.stdout)
    ELSE IF same_group(row, st.cmp_line, sfs)
    THEN extended(extend_group(row, st.aggregate_values, sfs, order), st)
    ELSE next_group_stale_key(
             flush(st.cmp_line, ffs, st.aggregate_values, st.stdout),
             reset_cmp_line(row, sfs, st.aggregate_values, order), st)

extended_eager(e, f, st) ==
    IF e.raised # "" THEN extended(e, st)
    ELSE MergeState(f.raised, st.cmp_line, e.aggregate_values, f.stdout)

flush_eager(e, st, ffs) ==
    extended_eager(e, flush(st.cmp_line, ffs, e.aggregate_values, st.stdout), st)

\* collect_and_aggregate that prints the open group each time a row joins it.
collect_and_aggregate_eager(row, st, ffs, sfs, order) ==
    IF st.cmp_line = None
    THEN started(reset_cmp_line(row, sfs, st.aggregate_values, order), st.stdout)
    ELSE IF same_group(row, st.cmp_line, sfs)
    THEN flush_eager(extend_group(row, st.aggregate_values, sfs, order), st, ffs)
    ELSE next_group(flush(st.cmp_line, ffs, st.aggregate_values, st.stdout),
                    row, st, sfs, order)

\* collect_and_aggregate(row), from the state st.
collect_and_aggregate(row, st, ffs, sfs, order) ==
    IF st.cmp_line = None
    THEN started(reset_cmp_line(row, sfs, st.aggregate_values, order), st.stdout)
    ELSE IF same_group(row, st.cmp_line, sfs)
    THEN extended(extend_group(row, st.aggregate_values, sfs, order), st)
    ELSE next_group(flush(st.cmp_line, ffs, st.aggregate_values, st.stdout),
                    row, st, sfs, order)

\* final_flush without the test of line 170: with no open group
\* add_mergeable finds no list to read (KeyError), or join none to join
\* (TypeError).
final_flush_unguarded(st, ffs) ==
    IF st.cmp_line = None
    THEN MergeState(IF Len(ffs) = 0 THEN "TypeError" ELSE "KeyError",
                    st.cmp_line, st.aggregate_values, st.stdout)
    ELSE flushed(flush(st.cmp_line, ffs, st.aggregate_values, st.stdout), st)

\* Lines 170-172: the last group is printed at the end of the input.
final_flush(st, ffs) ==
    IF st.cmp_line = None THEN st
    ELSE flushed(flush(st.cmp_line, ffs, st.aggregate_values, st.stdout), st)

-----------------------------------------------------------------------------
(* The row reader (csv_rows) and a whole run over the lines of an input.   *)

\* Line 22: csv.reader with the excel dialect and the delimiter given
\* (quote character '"', doubled inside a quoted field, no escape
\* character, not strict).  The parser of a record, as _csv keeps it: its
\* state, the field being read, the fields read, and "Error" once raised.
Parser(state, field, done, raised) ==
    [state |-> state, field |-> field, fields |-> done, raised |-> raised]

parse_reset == Parser("START_RECORD", <<>>, <<>>, "")

parse_save_field(p) == Parser(p.state, <<>>, Append(p.fields, p.field), p.raised)

\* csv.field_size_limit(), at its default.
field_limit == 131072

\* A character for a field that has field_limit characters raises Error.
parse_add_char(p, c) ==
    IF Len(p.field) >= field_limit THEN Parser(p.state, p.field, p.fields, "Error")
    ELSE Parser(p.state, Append(p.field, c), p.fields, p.raised)

Goto(p, state) == Parser(state, p.field, p.fields, p.raised)

\* EOL: what parse_process_char is given after the last character of a
\* line, which is no character.
EndOfLine == -2

IsNewline(c) == c \in {10, 13}  \* \n\r

LineEnd(p, c) ==
    Goto(parse_save_field(p), IF c = EndOfLine THEN "START_RECORD" ELSE "EAT_CRNL")

start_field(p, c, d) ==
    IF c = EndOfLine \/ IsNewline(c) THEN LineEnd(p, c)
    ELSE IF c = 34 THEN Goto(p, "IN_QUOTED_FIELD")  \* "
    ELSE IF c = d THEN Goto(parse_save_field(p), "START_FIELD")
    ELSE Goto(parse_add_char(p, c), "IN_FIELD")

start_record(p, c, d) ==
    IF c = EndOfLine THEN p
    ELSE IF IsNewline(c) THEN Goto(p, "EAT_CRNL")
    ELSE start_field(p, c, d)

in_field(p, c, d) ==
    IF c = EndOfLine \/ IsNewline(c) THEN LineEnd(p, c)
    ELSE IF c = d THEN Goto(parse_save_field(p), "START_FIELD")
    ELSE parse_add_char(p, c)

in_quoted_field(p, c) ==
    IF c = EndOfLine THEN p
    ELSE IF c = 34 THEN Goto(p, "QUOTE_IN_QUOTED_FIELD")  \* "
    ELSE parse_add_char(p, c)

quote_in_quoted_field(p, c, d) ==
    IF c = 34 THEN Goto(parse_add_char(p, c), "IN_QUOTED_FIELD")  \* "
    ELSE IF c = d THEN Goto(parse_save_field(p), "START_FIELD")
    ELSE IF c = EndOfLine \/ IsNewline(c) THEN LineEnd(p, c)
    ELSE Goto(parse_add_char(p, c), "IN_FIELD")

eat_crnl(p, c) ==
    IF c = EndOfLine THEN Goto(p, "START_RECORD")
    ELSE IF IsNewline(c) THEN p
    ELSE Parser(p.state, p.field, p.fields, "Error")

parse_process_char(p, c, d) ==
    IF p.raised # "" THEN p
    ELSE CASE p.state = "START_RECORD" -> start_record(p, c, d)
           [] p.state = "START_FIELD" -> start_field(p, c, d)
           [] p.state = "IN_FIELD" -> in_field(p, c, d)
           [] p.state = "IN_QUOTED_FIELD" -> in_quoted_field(p, c)
           [] p.state = "QUOTE_IN_QUOTED_FIELD" -> quote_in_quoted_field(p, c, d)
           [] p.state = "EAT_CRNL" -> eat_crnl(p, c)

\* The characters of a line from place lo to place hi, one after the other.
RECURSIVE parse_chars(_, _, _, _, _)
parse_chars(p, line, lo, hi, d) ==
    IF lo > hi \/ p.raised # "" THEN p
    ELSE IF lo = hi THEN parse_process_char(p, line[lo], d)
    ELSE parse_chars(parse_chars(p, line, lo, (lo + hi) \div 2, d),
                     line, ((lo + hi) \div 2) + 1, hi, d)

\* The characters of a line, then the end of the line.
parse_line(p, line, d) ==
    parse_process_char(parse_chars(p, line, 1, Len(line), d), EndOfLine, d)

\* Reader_iternext over the lines of the input, each as the file yields it
\* (with the line feed that ends it, which the last line may lack): a
\* record ends with the line on which the parser is back at the start of a
\* record, so a quoted field may run over several lines; at the end of the
\* input an open quoted field is kept as it is.  [raised, rows].
\* Reading(p, rows): the parser and the records read.
Reading(p, rows) == [p |-> p, rows |-> rows]

reader_record(p, rows) ==
    IF p.raised = "" /\ p.state = "START_RECORD"
    THEN Reading(parse_reset, Append(rows, p.fields))
    ELSE Reading(p, rows)

reader_line(r, line, d) ==
    IF r.p.raised # "" THEN r
    ELSE reader_record(parse_line(r.p, line, d), r.rows)

\* The lines from place lo to place hi, one after the other.
RECURSIVE reader_lines(_, _, _, _, _)
reader_lines(r, lines, lo, hi, d) ==
    IF lo > hi \/ r.p.raised # "" THEN r
    ELSE IF lo = hi THEN reader_line(r, lines[lo], d)
    ELSE reader_lines(reader_lines(r, lines, lo, (lo + hi) \div 2, d),
                      lines, ((lo + hi) \div 2) + 1, hi, d)

reader_rows(r) ==
    IF r.p.raised # "" THEN [raised |-> r.p.raised, rows |-> r.rows]
    ELSE [raised |-> "",
          rows |-> IF r.p.state = "IN_QUOTED_FIELD"
                   THEN Append(r.rows, parse_save_field(r.p).fields) ELSE r.rows]

\* csv.reader(inchannel, delimiter=delim) and the records it yields: a
\* delimiter that is not one character raises TypeError before a line is
\* read.
csv_reader(lines, d) ==
    IF Len(d) # 1 THEN [raised |-> "TypeError", rows |-> <<>>]
    ELSE reader_rows(reader_lines(Reading(parse_reset, <<>>), lines, 1,
                                  Len(lines), d[1]))

\* Line 23: [e.strip() for e in row]
stripped(row) == [i \in 1..Len(row) |-> strip(row[i])]

all_stripped(rows) == [i \in 1..Len(rows) |-> stripped(rows[i])]

read_rows(rd) == [raised |-> rd.raised, rows |-> all_stripped(rd.rows)]

\* Lines 22-23: the rows fn is called with, for the lines of an input, and
\* the exception of the reader that ends the iteration, if any.
\* [raised, rows].
csv_rows(lines) == read_rows(csv_reader(lines, delimiter))

\* sys.stdout after the lines printed: print ends each with a line feed.
RECURSIVE written(_)
written(out) ==
    IF Len(out) = 0 THEN <<>>
    ELSE written(SubSeq(out, 1, Len(out) - 1)) \o out[Len(out)] \o <<10>>

\* The lines a text stream yields that ends its lines at the line feed
\* only: each line ends with its line feed, the last one where the text
\* ends.
LineEnds(t) == {i \in 1..Len(t) : t[i] = 10} \cup {Len(t)}

LineStart(t, e) ==
    IF \E i \in 1..(e - 1) : t[i] = 10
    THEN SetMax({i \in 1..(e - 1) : t[i] = 10}) + 1 ELSE 1

RECURSIVE LinesEnding(_, _)
LinesEnding(t, ends) ==
    IF ends = {} THEN <<>>
    ELSE LinesEnding(t, ends \ {SetMax(ends)})
             \o <<SubSeq(t, LineStart(t, SetMax(ends)), SetMax(ends))>>

\* Line 26, filename == '': the lines of sys.stdin.  The interpreter opens
\* standard input with newline "\n": nothing is translated, a carriage
\* return stays in its line and ends none.
stdin_readlines(text) ==
    IF Len(text) = 0 THEN <<>> ELSE LinesEnding(text, LineEnds(text))

\* Line 28: open(filename) reads with universal newlines: a carriage return
\* with the line feed behind it, or alone, is a line feed.
universal_newlines(t) ==
    SelectSeq([i \in 1..Len(t) |->
                  IF t[i] # 13 THEN t[i]
                  ELSE IF i < Len(t) /\ t[i + 1] = 10 THEN EndOfLine
                  ELSE 10],
              LAMBDA c : c # EndOfLine)

\* Line 28: the lines of the file.
file_readlines(text) == stdin_readlines(universal_newlines(text))

\* Lines 25-29: the lines the reader is given for the text of the input.
readlines(filename, text) ==
    IF filename = <<>> THEN stdin_readlines(text) ELSE file_readlines(text)

\* What a process is handed that reads the lines printed, out, from its
\* standard input: [raised, rows].
read_back(out) == csv_rows(stdin_readlines(written(out)))

\* Lines 169-172 over the lines of an input: the state in which the run
\* ends (raised says how).
merge_row(st, row, ffs, order) ==
    IF st.raised # "" THEN st
    ELSE collect_and_aggregate(row, st, ffs, field_set(ffs), order)

\* The rows from place lo to place hi, one after the other.
RECURSIVE merge_rows(_, _, _, _, _, _)
merge_rows(st, rows, lo, hi, ffs, order) ==
    IF lo > hi \/ st.raised # "" THEN st
    ELSE IF lo = hi THEN merge_row(st, rows[lo], ffs, order)
    ELSE merge_rows(merge_rows(st, rows, lo, (lo + hi) \div 2, ffs, order),
                    rows, ((lo + hi) \div 2) + 1, hi, ffs, order)

\* The exception of the reader leaves csv_rows (line 169) when the rows
\* before it have been handed over: nothing more is printed.
interrupted(st, raised) ==
    MergeState(raised, st.cmp_line, st.aggregate_values, st.stdout)

merge_end(st, raised, ffs) ==
    IF st.raised # "" THEN st
    ELSE IF raised # "" THEN interrupted(st, raised)
    ELSE final_flush(st, ffs)

\* rd: what csv_rows reads, [raised, rows].
merge_from(rd, st, ffs, order) ==
    merge_end(merge_rows(st, rd.rows, 1, Len(rd.rows), ffs, order), rd.raised, ffs)

\* The orders in which a set may yield its elements.
Orders(S) ==
    {o \in [1..Cardinality(S) -> S] :
        \A i, j \in 1..Cardinality(S) : i # j => o[i] # o[j]}

\* The least of a set of naturals.
NMin(S) == CHOOSE x \in S : \A y \in S : NCmp(x, y) <= 0

\* The elements of a set of naturals from the least to the greatest.
RECURSIVE Ascending(_)
Ascending(S) ==
    IF S = {} THEN <<>> ELSE <<NMin(S)>> \o Ascending(S \ {NMin(S)})

\* The order of the set shows only when a row lacks one of its elements.
OrdersFor(S, row) ==
    IF \A n \in S : HasItem(row, n) THEN {Ascending(S)} ELSE Orders(S)

merge(lines, ffs, order) ==
    merge_from(csv_rows(lines), MergeState("", None, <<>>, <<>>), ffs, order)

-----------------------------------------------------------------------------
(* The inputs of the model.                                                *)

K_pick == <<112, 105, 99, 107>>  \* pick
K_merge == <<109, 101, 114, 103, 101>>  \* merge
K_sort == <<115, 111, 114, 116>>  \* sort

T_a == <<97>>  \* a
T_b == <<98>>  \* b
T_x == <<120>>  \* x
T_1 == <<49>>  \* 1
T_2 == <<50>>  \* 2
T_10 == <<49, 48>>  \* 10
T_20 == <<50, 48>>  \* 20
T_30 == <<51, 48>>  \* 30
T_inf == <<105, 110, 102>>  \* inf
T_nan == <<110, 97, 110>>  \* nan

\* The rows the reader may hand over: each is what csv.reader yields for a
\* line, every field stripped.  Rows of three and of two fields, a field
\* that is no number, a field float() reads as infinity, equal and
\* different comparable parts.
RowPool ==
    { <<T_a, T_1, T_10>>,
      <<T_a, T_1, T_20>>,
      <<T_b, T_2, T_30>>,
      <<T_b, T_2, T_inf>>,
      <<T_b, T_x>>,
      <<T_a, T_1>> }

\* A field index of more digits than int() takes.
TooManyDigits == [i \in 1..(int_max_str_digits + 1) |-> 49]

\* The -f texts of the command line: text and numeric functions on every
\* field, two functions for each field, a field index no row has, a text
\* without ":", an unknown function and a field index int() refuses.
ArgPool ==
    { <<48, 58>> \o F_first,  \* 0:
      <<48, 58>> \o F_ignore,  \* 0:
      <<49, 58>> \o F_last,  \* 1:
      <<49, 58>> \o F_min,  \* 1:
      <<50, 58>> \o F_sum,  \* 2:
      <<50, 58>> \o F_stdev,  \* 2:
      <<57, 58>> \o F_max,  \* 9:
      <<49>> \o F_sum,  \* 1
      <<49, 58, 102, 111, 111>>,  \* 1:foo
      TooManyDigits \o <<58>> \o F_sum }

\* A line of one field that has more characters than the reader takes, and
\* what the reader raises on it.
LongLine == [i \in 1..(field_limit + 1) |-> 97] \o <<10>>

ReaderRaises == csv_rows(<<LongLine>>).raised

RECURSIVE SeqsUpTo(_, _)
SeqsUpTo(S, n) ==
    IF n = 0 THEN {<<>>}
    ELSE LET shorter == SeqsUpTo(S, n - 1)
         IN  shorter \cup {Append(q, x) : q \in shorter, x \in S}

-----------------------------------------------------------------------------
(* The run of op_merge.                                                    *)

Init ==
    /\ operation = <<K_merge>>
    /\ args \in SeqsUpTo(ArgPool, MaxArgs)
    /\ pc = "start"
    /\ field_functions = <<>>
    /\ sfield_set = {}
    /\ aggregate_values = <<>>
    /\ cmp_line = None
    /\ stdout = <<>>
    /\ exit_code = None
    /\ error = ""
    /\ rows_read = <<>>
    /\ fields = <<>>
    /\ row_list = <<>>

\* The texts of the command line ff does not take: fatal, or int() raises.
Refused(r) == r.fatal # None \/ r.raised # ""

BadArgs == {i \in 1..Len(args) : Refused(ff(args[i]))}

\* Lines 128-131, every text of the command line is accepted.
ParseArgs ==
    /\ pc = "start"
    /\ BadArgs = {}
    /\ field_functions' = parse_field_functions(args)
    /\ sfield_set' = field_set(parse_field_functions(args))
    /\ aggregate_values' = <<>>
    /\ cmp_line' = None
    /\ pc' = "rows"
    /\ UNCHANGED <<operation, args, stdout, exit_code, error, rows_read, fields, row_list>>

\* The run ends in ff: fatal prints its message with print(s), to standard
\* output, and exits with status 1 (lines 12-15); the ValueError of int()
\* is caught by nothing and ends the process with status 1.
Refusal(r) ==
    /\ stdout' = stdout \o r.fatal
    /\ error' = (IF r.fatal # None THEN "fatal" ELSE r.raised)
    /\ exit_code' = <<1>>

\* Line 128: the first text ff does not take ends the run.
ParseArgsFatal ==
    /\ pc = "start"
    /\ BadArgs # {}
    /\ Refusal(ff(args[SetMin(BadArgs)]))
    /\ pc' = "exit"
    /\ UNCHANGED <<operation, args, field_functions, sfield_set, aggregate_values,
                   cmp_line, rows_read, fields, row_list>>

Closures == MergeState("", cmp_line, aggregate_values, stdout)

\* An exception nothing catches ends the process with status 1.
Continue(st, next_pc) ==
    /\ cmp_line' = st.cmp_line
    /\ aggregate_values' = st.aggregate_values
    /\ stdout' = st.stdout
    /\ error' = st.raised
    /\ IF st.raised # ""
       THEN pc' = "exit" /\ exit_code' = <<1>>
       ELSE pc' = next_pc /\ exit_code' = (IF next_pc = "exit" THEN <<0>> ELSE None)

\* Line 23: csv_rows hands the next row to collect_and_aggregate.
Row(row) ==
    /\ pc = "rows"
    /\ Len(rows_read) < MaxRows
    /\ rows_read' = Append(rows_read, row)
    /\ \E order \in OrdersFor(sfield_set, row) :
           \E st \in {collect_and_aggregate(row, Closures, field_functions,
                                            sfield_set, order)} :
               Continue(st, "rows")
    /\ UNCHANGED <<operation, args, field_functions, sfield_set, fields, row_list>>

\* Lines 169-172 and 275: the input ends, the open group is printed and
\* the process exits with status 0.
EndOfInput ==
    /\ pc = "rows"
    /\ \E st \in {final_flush(Closures, field_functions)} : Continue(st, "exit")
    /\ UNCHANGED <<operation, args, field_functions, sfield_set, rows_read, fields, row_list>>

\* Line 22: the reader raises on the next line of the input, a line with a
\* field longer than field_limit; the exception leaves csv_rows, nothing
\* catches it and the open group is not printed.
ReaderError ==
    /\ pc = "rows"
    /\ ReaderRaises # ""
    /\ Continue(interrupted(Closures, ReaderRaises), "rows")
    /\ UNCHANGED <<operation, args, field_functions, sfield_set, rows_read, fields, row_list>>

\* Line 28: open(filename) of a file that is not there raises
\* FileNotFoundError when csv_rows is entered, before a row is read.
NoSuchFile ==
    /\ pc = "rows"
    /\ rows_read = <<>>
    /\ Continue(interrupted(Closures, "FileNotFoundError"), "rows")
    /\ UNCHANGED <<operation, args, field_functions, sfield_set, rows_read,
                   fields, row_list>>

Next ==
    \/ ParseArgs
    \/ ParseArgsFatal
    \/ \E row \in RowPool : Row(row)
    \/ ReaderError
    \/ NoSuchFile
    \/ EndOfInput

Spec == Init /\ [][Next]_vars

-----------------------------------------------------------------------------
(* The run of op_merge on the inputs of a second run: every function but   *)
(* stdev on the last field, a float that underflows, and a field that a    *)
(* printed line does not give back.                                        *)

T_0 == <<48>>  \* 0
T_tiny == <<45, 53, 101, 45, 51, 50, 52>>  \* -5e-324
T_1_comma_5 == <<49, 44, 53>>  \* 1,5

\* Rows of three fields: the negative float nearest to zero and zero,
\* whose mean and median are -0.0, and a field with the delimiter in it,
\* as the reader yields it for "1,5" in quotes.
IdemRowPool ==
    { <<T_a, T_1, T_10>>,
      <<T_a, T_1, T_0>>,
      <<T_a, T_1, T_tiny>>,
      <<T_b, T_2, T_30>>,
      <<T_b, T_1_comma_5, T_10>> }

\* The functions but stdev.
Repeatable == {F_first, F_last, F_ignore, F_sum, F_min, F_max, F_mean, F_median}

OnLast(f) == <<50, 58>> \o f  \* 2:

OnMiddle(f) == <<49, 58>> \o f  \* 1:

\* The command lines: no -f text; each function on the last field, alone
\* and after a function on the field before it; the two fields in the
\* other order; the middle field alone; a text without ":".
IdemCommandLines ==
    {<<>>}
        \cup {<<OnLast(f)>> : f \in Repeatable}
        \cup {<<OnMiddle(F_last), OnLast(f)>> : f \in Repeatable}
        \cup { <<OnLast(F_sum), OnMiddle(F_last)>>,
               <<OnMiddle(F_min)>>,
               <<(<<49>> \o F_sum)>> }  \* 1

IdemInit ==
    /\ operation = <<K_merge>>
    /\ args \in IdemCommandLines
    /\ pc = "start"
    /\ field_functions = <<>>
    /\ sfield_set = {}
    /\ aggregate_values = <<>>
    /\ cmp_line = None
    /\ stdout = <<>>
    /\ exit_code = None
    /\ error = ""
    /\ rows_read = <<>>
    /\ fields = <<>>
    /\ row_list = <<>>

IdemNext ==
    \/ ParseArgs
    \/ ParseArgsFatal
    \/ \E row \in IdemRowPool : Row(row)
    \/ ReaderError
    \/ NoSuchFile
    \/ EndOfInput

IdemSpec == IdemInit /\ [][IdemNext]_vars

-----------------------------------------------------------------------------
(* The sort operation (op_sort).  A key is the field of a row under the    *)
(* type of the pair: str (the text itself), float or int.                  *)

\* re.search("^([0-9]+)(:[a-z]+)?$", s): None, or <<group(1), group(2)>>,
\* group(2) being None when the text has no ":" part.
\* "^([0-9]+)(:[a-z]+)?$" on all of t, k being the digits t starts with.
sort_re_match(t, k) == k >= 1 /\ (k = Len(t) \/ ColonAndLower(t, k))

sort_re_groups(t, k) ==
    <<SubSeq(t, 1, k), IF k = Len(t) THEN None ELSE <<SubSeq(t, k + 1, Len(t))>> >>

sort_re_search(s) ==
    IF sort_re_match(s, DigitRun(s)) THEN sort_re_groups(s, DigitRun(s))
    ELSE IF sort_re_match(BeforeFinalNewline(s), DigitRun(BeforeFinalNewline(s)))
    THEN sort_re_groups(BeforeFinalNewline(s), DigitRun(BeforeFinalNewline(s)))
    ELSE None

MsgUnableField == <<117, 110, 97, 98, 108, 101, 32, 116, 111, 32, 105, 110, 116, 101, 114, 112, 114, 101, 116, 32, 102, 105, 101, 108, 100, 32>>

MsgUnknownType == <<117, 110, 107, 110, 111, 119, 110, 32, 116, 121, 112, 101, 32, 102, 111, 114, 32, 102, 105, 101, 108, 100, 47, 116, 121, 112, 101, 32, 112, 97, 105, 114, 58, 32>>

sort_ff_match(s, m) ==
    IF m = None THEN Fatal(MsgUnableField \o s)
    ELSE IF m[2] = None \/ m[2] = <<<<58>> \o K_string>> THEN IntPair(m[1], K_str)
    ELSE IF m[2] = <<<<58>> \o K_float>> THEN IntPair(m[1], K_float)
    ELSE IF m[2] = <<<<58>> \o K_int>> THEN IntPair(m[1], K_int)
    ELSE Fatal(MsgUnknownType \o s)

\* ff(s) of op_sort: [fatal |-> the message of fatal()], [raised |-> the
\* exception of int()] or [pair |-> <<int, type name>>]; 58 is ":".
sort_ff(s) == sort_ff_match(s, sort_re_search(s))

\* Line 223: fields = [ff(s) for s in args.fields]
parse_fields(a) == [i \in 1..Len(a) |-> sort_ff(a[i]).pair]

FloatKey(p) == [raised |-> IF p.ok THEN "" ELSE "ValueError", k |-> p.q]

IntKey(p) == [raised |-> IF p.ok THEN "" ELSE "ValueError", k |-> p.v]

\* The key of line 228, fcn(row[n]): [raised, k].  row[n] of a row without
\* a field n raises IndexError, float() and int() of a text that is no
\* number raise ValueError.
sort_key(row, n, fcn) ==
    IF ~HasItem(row, n) THEN [raised |-> "IndexError", k |-> <<>>]
    ELSE CASE fcn = K_str   -> [raised |-> "", k |-> Item(row, n)]
           [] fcn = K_float -> FloatKey(float(Item(row, n)))
           [] fcn = K_int   -> IntKey(int_field(Item(row, n)))

\* The rows in the order of their keys ks.
sorted_by(l, ks, fcn) ==
    ValuesOfItems(sort_items([i \in 1..Len(l) |-> [k |-> ks[i].k, v |-> l[i]]],
                             fcn))

\* The keys are computed first, in the order of the list: the first row
\* whose key raises ends the sort and leaves the list as it was.
sort_keyed(l, ks, fcn, bad) ==
    IF bad # {} THEN [raised |-> ks[SetMin(bad)].raised, row_list |-> l]
    ELSE [raised |-> "", row_list |-> sorted_by(l, ks, fcn)]

sort_by_keys(l, ks, fcn) ==
    sort_keyed(l, ks, fcn, {i \in 1..Len(l) : ks[i].raised # ""})

\* Line 228: row_list.sort(key=lambda row: fcn(row[n])).  [raised, row_list].
list_sort(l, n, fcn) ==
    sort_by_keys(l, [i \in 1..Len(l) |-> sort_key(l[i], n, fcn)], fcn)

\* The loop of lines 227-228 with the pairs taken last to first.
RECURSIVE sort_rows_last_key_first(_, _)
sort_next_last_key_first(r, fs) ==
    IF r.raised # "" THEN r ELSE sort_rows_last_key_first(r.row_list, fs)

sort_rows_last_key_first(l, fs) ==
    IF Len(fs) = 0 THEN [raised |-> "", row_list |-> l]
    ELSE sort_next_last_key_first(list_sort(l, fs[Len(fs)][1], fs[Len(fs)][2]),
                                  SubSeq(fs, 1, Len(fs) - 1))

\* Lines 227-228: one sort per pair, in the order of the pairs; an
\* exception of a sort ends the loop.
RECURSIVE sort_rows(_, _)
sort_next(r, fs) == IF r.raised # "" THEN r ELSE sort_rows(r.row_list, fs)

sort_rows(l, fs) ==
    IF Len(fs) = 0 THEN [raised |-> "", row_list |-> l]
    ELSE sort_next(list_sort(l, fs[1][1], fs[1][2]), Tail(fs))

T_1_5 == <<49, 46, 53>>  \* 1.5

\* The rows of the sort: equal and different fields, a field whose order as
\* a number is not its order as text, a field that is a float and no int,
\* a field float() reads as nan, a row of one field.
SortRowPool ==
    { <<T_b, T_10>>,
      <<T_a, T_2>>,
      <<T_a, T_10>>,
      <<T_b, T_1_5>>,
      <<T_a, T_nan>>,
      <<T_x>> }

\* The -f texts of the sort: a field alone and with each type, an unknown
\* type, a text that is no field and a field index int() refuses.
SortArgPool ==
    { <<48>>,  \* 0
      <<49, 58>> \o K_string,  \* 1:
      <<49, 58>> \o K_float,  \* 1:
      <<49, 58>> \o K_int,  \* 1:
      <<49, 58, 102, 111, 111>>,  \* 1:foo
      <<97>>,  \* a
      TooManyDigits }

\* The run of op_sort.  args is args.fields: the texts of -f, one or more
\* (nargs='+'), or None when the command line has no -f, the option being
\* neither required nor given a default.
SortInit ==
    /\ operation = <<K_sort>>
    /\ args \in SeqsUpTo(SortArgPool, MaxArgs)
    /\ pc = "start"
    /\ field_functions = <<>>
    /\ sfield_set = {}
    /\ aggregate_values = <<>>
    /\ cmp_line = None
    /\ stdout = <<>>
    /\ exit_code = None
    /\ error = ""
    /\ rows_read = <<>>
    /\ fields = <<>>
    /\ row_list = <<>>

merge_vars == <<field_functions, sfield_set, aggregate_values, cmp_line>>

SortBadArgs == {i \in 1..Len(args) : Refused(sort_ff(args[i]))}

\* Lines 223-225, every text of the command line is accepted.
SortParseArgs ==
    /\ pc = "start"
    /\ args # None
    /\ SortBadArgs = {}
    /\ fields' = parse_fields(args)
    /\ row_list' = <<>>
    /\ pc' = "rows"
    /\ UNCHANGED <<operation, args, stdout, exit_code, error, rows_read, merge_vars>>

\* Line 223: the first text ff does not take ends the run.
SortParseArgsFatal ==
    /\ pc = "start"
    /\ SortBadArgs # {}
    /\ Refusal(sort_ff(args[SetMin(SortBadArgs)]))
    /\ pc' = "exit"
    /\ UNCHANGED <<operation, args, rows_read, fields, row_list, merge_vars>>

\* Line 223 without -f: [ff(s) for s in None] raises TypeError, which
\* nothing catches, before a row is read.
SortNoFields ==
    /\ pc = "start"
    /\ args = None
    /\ error' = "TypeError"
    /\ exit_code' = <<1>>
    /\ pc' = "exit"
    /\ UNCHANGED <<operation, args, stdout, rows_read, fields, row_list, merge_vars>>

\* Line 226: csv_rows hands the next row to row_list.append.
SortRow(row) ==
    /\ pc = "rows"
    /\ Len(rows_read) < MaxRows
    /\ rows_read' = Append(rows_read, row)
    /\ row_list' = Append(row_list, row)
    /\ UNCHANGED <<operation, args, pc, stdout, exit_code, error, fields, merge_vars>>

\* Lines 229-230, after the sorts gave r.
SortPrinted(r) ==
    /\ row_list' = r.row_list
    /\ error' = r.raised
    /\ exit_code' = IF r.raised # "" THEN <<1>> ELSE <<0>>
    /\ stdout' = IF r.raised # "" THEN stdout
                 ELSE stdout \o [i \in 1..Len(r.row_list) |->
                                    join(delimiter, r.row_list[i])]

\* Lines 227-230 and 275: the input ends, the list is sorted once per pair
\* and printed, and the process exits with status 0; an exception of a key
\* ends it with status 1 before anything is printed.
SortEndOfInput ==
    /\ pc = "rows"
    /\ SortPrinted(sort_rows(row_list, fields))
    /\ pc' = "exit"
    /\ UNCHANGED <<operation, args, rows_read, fields, merge_vars>>

\* Line 22: the reader raises on the next line of the input; no row has
\* been printed yet.
SortReaderError ==
    /\ pc = "rows"
    /\ ReaderRaises # ""
    /\ error' = ReaderRaises
    /\ exit_code' = <<1>>
    /\ pc' = "exit"
    /\ UNCHANGED <<operation, args, stdout, rows_read, fields, row_list, merge_vars>>

\* Line 28: open(filename) of a file that is not there raises
\* FileNotFoundError when csv_rows is entered, before a row is read.
SortNoSuchFile ==
    /\ pc = "rows"
    /\ rows_read = <<>>
    /\ error' = "FileNotFoundError"
    /\ exit_code' = <<1>>
    /\ pc' = "exit"
    /\ UNCHANGED <<operation, args, stdout, rows_read, fields, row_list, merge_vars>>

SortNext ==
    \/ SortParseArgs
    \/ SortParseArgsFatal
    \/ SortNoFields
    \/ \E row \in SortRowPool : SortRow(row)
    \/ SortReaderError
    \/ SortNoSuchFile
    \/ SortEndOfInput

SortSpec == SortInit /\ [][SortNext]_vars

-----------------------------------------------------------------------------
(* The pick operation (op_pick).  args holds the one text of -f,           *)
(* args.fields, fields the integers it names.                              *)

\* t.split(sep) for a separator of one character: the parts of t between
\* the separators, one part more than there are separators.
SeparatorsIn(t, sep) == {i \in 1..Len(t) : t[i] = sep}

RECURSIVE split_at(_, _)
split_at(t, seps) ==
    IF seps = {} THEN <<t>>
    ELSE split_at(SubSeq(t, 1, SetMax(seps) - 1), seps \ {SetMax(seps)})
             \o <<SubSeq(t, SetMax(seps) + 1, Len(t))>>

split(t, sep) == split_at(t, SeparatorsIn(t, sep))

\* Line 61: [int(x) for x in args.fields.split(',')], [raised, fields]: the
\* integers, or the ValueError of the first part that int() refuses.
ints_of(parts, ints) ==
    IF \E i \in 1..Len(ints) : ~ints[i].ok
    THEN [raised |-> "ValueError", fields |-> <<>>]
    ELSE [raised |-> "", fields |-> [i \in 1..Len(ints) |-> ints[i].v]]

pick_fields(text) ==
    ints_of(split(text, 44),  \* ,
            [i \in 1..Len(split(text, 44)) |-> int_field(split(text, 44)[i])])

\* row[n] for an integer n with a sign: a negative n counts from the end of
\* the row; is there such an item, and the item.
has_index(row, n) ==
    IF n.neg THEN NCmp(n.m, NFromInt(Len(row))) <= 0 ELSE HasItem(row, n.m)

at_index(row, n) ==
    IF n.neg THEN row[Len(row) - NToInt(n.m) + 1] ELSE Item(row, n.m)

\* Line 63: [row[n] for n in fields], [raised, picked].
picked(row, ns) ==
    IF \E j \in 1..Len(ns) : ~has_index(row, ns[j])
    THEN [raised |-> "IndexError", picked |-> <<>>]
    ELSE [raised |-> "", picked |-> [j \in 1..Len(ns) |-> at_index(row, ns[j])]]

T_0_comma_2 == <<48, 44, 50>>  \* 0,2
T_5 == <<53>>  \* 5
T_minus_1 == <<45, 49>>  \* -1
T_2_space_0 == <<50, 44, 32, 48>>  \* 2, 0
T_0_comma_x == <<48, 44, 120>>  \* 0,x

\* The texts of -f: two fields, a field no row has, the default (the empty
\* text), a field counted from the end, a part with a space, a part that
\* is no integer.
PickArgPool == {T_0_comma_2, T_5, <<>>, T_minus_1, T_2_space_0, T_0_comma_x}

\* Line 61, every part of the text is an integer.
PickParseArgs ==
    /\ pc = "start"
    /\ pick_fields(args[1]).raised = ""
    /\ fields' = pick_fields(args[1]).fields
    /\ pc' = "rows"
    /\ UNCHANGED <<operation, args, stdout, exit_code, error, rows_read,
                   row_list, merge_vars>>

\* Line 61: the ValueError of int() is caught by nothing and ends the
\* process with status 1.
PickParseArgsError ==
    /\ pc = "start"
    /\ pick_fields(args[1]).raised # ""
    /\ error' = pick_fields(args[1]).raised
    /\ exit_code' = <<1>>
    /\ pc' = "exit"
    /\ UNCHANGED <<operation, args, stdout, rows_read, fields, row_list,
                   merge_vars>>

\* What line 63 does with the fields p picked of a row: they are printed,
\* or the IndexError of row[n] ends the process with status 1.
PickPrinted(p) ==
    /\ error' = p.raised
    /\ IF p.raised # ""
       THEN pc' = "exit" /\ exit_code' = <<1>> /\ stdout' = stdout
       ELSE /\ pc' = pc
            /\ exit_code' = exit_code
            /\ stdout' = Append(stdout, join(delimiter, p.picked))

\* Lines 62-63: csv_rows hands the next row to the lambda.
PickRow(row) ==
    /\ pc = "rows"
    /\ Len(rows_read) < MaxRows
    /\ rows_read' = Append(rows_read, row)
    /\ PickPrinted(picked(row, fields))
    /\ UNCHANGED <<operation, args, fields, row_list, merge_vars>>

\* Lines 62 and 275: the input ends and the process exits with status 0.
PickEndOfInput ==
    /\ pc = "rows"
    /\ exit_code' = <<0>>
    /\ pc' = "exit"
    /\ UNCHANGED <<operation, args, stdout, error, rows_read, fields,
                   row_list, merge_vars>>

\* Line 22: the reader raises on the next line of the input; the rows
\* before it are printed already.
PickReaderError ==
    /\ pc = "rows"
    /\ ReaderRaises # ""
    /\ error' = ReaderRaises
    /\ exit_code' = <<1>>
    /\ pc' = "exit"
    /\ UNCHANGED <<operation, args, stdout, rows_read, fields, row_list,
                   merge_vars>>

\* Line 28: open(filename) of a file that is not there.
PickNoSuchFile ==
    /\ pc = "rows"
    /\ rows_read = <<>>
    /\ error' = "FileNotFoundError"
    /\ exit_code' = <<1>>
    /\ pc' = "exit"
    /\ UNCHANGED <<operation, args, stdout, rows_read, fields, row_list,
                   merge_vars>>

PickNext ==
    \/ PickParseArgs
    \/ PickParseArgsError
    \/ \E row \in RowPool : PickRow(row)
    \/ PickReaderError
    \/ PickNoSuchFile
    \/ PickEndOfInput

-----------------------------------------------------------------------------
(* The main program: the usage and version texts and the choice of the     *)
(* operation by sys.argv[1].                                               *)

\* sys.argv[0], the path the program was started by.
argv0 == <<99, 115, 118, 117, 116, 105, 108, 46, 112, 121>>  \* csvutil.py

\* Pick a field or set of fields from each row.
op_pick_desc ==
    <<80, 105, 99, 107, 32, 97, 32, 102, 105, 101, 108, 100, 32, 111, 114,
      32, 115, 101, 116, 32, 111, 102, 32, 102, 105, 101, 108, 100, 115,
      32, 102, 114, 111, 109, 32, 101, 97, 99, 104, 32, 114, 111, 119, 46>>

\* Merge similar sequential lines.
op_merge_desc ==
    <<77, 101, 114, 103, 101, 32, 115, 105, 109, 105, 108, 97, 114, 32,
      115, 101, 113, 117, 101, 110, 116, 105, 97, 108, 32, 108, 105, 110,
      101, 115, 46>>

\* Sort rows based on the specified fields.
op_sort_desc ==
    <<83, 111, 114, 116, 32, 114, 111, 119, 115, 32, 98, 97, 115, 101, 100,
      32, 111, 110, 32, 116, 104, 101, 32, 115, 112, 101, 99, 105, 102,
      105, 101, 100, 32, 102, 105, 101, 108, 100, 115, 46>>

\* Lines 238-240: the operations, in the order of the dict, each with its
\* description.
ops ==
    << <<K_pick, op_pick_desc>>,
       <<K_merge, op_merge_desc>>,
       <<K_sort, op_sort_desc>> >>

ops_keys == {ops[k][1] : k \in 1..Len(ops)}

T_h == <<45, 104>>  \* -h
T_help == <<45, 45, 104, 101, 108, 112>>  \* --help
T_v == <<45, 118>>  \* -v
T_version == <<45, 45, 118, 101, 114, 115, 105, 111, 110>>  \* --version
T_frob == <<102, 114, 111, 98>>  \* frob

UsageHead == <<117, 115, 97, 103, 101, 58, 32>>  \* usage: 

UsageArgs == <<32, 91, 65, 82, 71, 83, 93, 10>>  \*  [ARGS]\n

\*   Perform operations on a CSV file or input.\n
UsagePerform ==
    <<32, 32, 80, 101, 114, 102, 111, 114, 109, 32, 111, 112, 101, 114, 97,
      116, 105, 111, 110, 115, 32, 111, 110, 32, 97, 32, 67, 83, 86, 32,
      102, 105, 108, 101, 32, 111, 114, 32, 105, 110, 112, 117, 116, 46,
      10>>

\*       -h|--help: This usage message.
UsageHelp ==
    <<32, 32, 32, 32, 32, 32, 45, 104, 124, 45, 45, 104, 101, 108, 112, 58,
      32, 84, 104, 105, 115, 32, 117, 115, 97, 103, 101, 32, 109, 101, 115,
      115, 97, 103, 101, 46>>

\*       -v|--version: Version information.\n
UsageVersion ==
    <<32, 32, 32, 32, 32, 32, 45, 118, 124, 45, 45, 118, 101, 114, 115,
      105, 111, 110, 58, 32, 86, 101, 114, 115, 105, 111, 110, 32, 105,
      110, 102, 111, 114, 109, 97, 116, 105, 111, 110, 46, 10>>

\*   CSV operations:\n
UsageOperations ==
    <<32, 32, 67, 83, 86, 32, 111, 112, 101, 114, 97, 116, 105, 111, 110,
      115, 58, 10>>

UsageIndent == <<32, 32, 32, 32, 32, 32>>  \*       

UsageColon == <<58, 32>>  \* : 

UsageUse == <<10, 32, 32, 85, 115, 101, 32>>  \* \n  Use 

\*  [OP] -h for help on a specific op.
UsageOp ==
    <<32, 91, 79, 80, 93, 32, 45, 104, 32, 102, 111, 114, 32, 104, 101,
      108, 112, 32, 111, 110, 32, 97, 32, 115, 112, 101, 99, 105, 102, 105,
      99, 32, 111, 112, 46>>

\* Lines 244-251: the texts usage() prints, one for each call of print.
usage_ops == [k \in 1..Len(ops) |-> UsageIndent \o ops[k][1] \o UsageColon \o ops[k][2]]

usage(prog) ==
    <<UsageHead \o prog \o UsageArgs, UsagePerform, UsageHelp, UsageVersion,
      UsageOperations>>
        \o usage_ops
        \o <<UsageUse \o prog \o UsageOp>>

\* textwrap.wrap(text, width) for a text of words and spaces, without tab,
\* hyphen or dash.  The chunks of the text are its words and the runs of
\* spaces between them.
ChunkEnd(t, i) ==
    IF \E j \in (i + 1)..Len(t) : (t[j] = 32) # (t[i] = 32)
    THEN SetMin({j \in (i + 1)..Len(t) : (t[j] = 32) # (t[i] = 32)}) - 1
    ELSE Len(t)

RECURSIVE chunks_from(_, _)
chunks_from(t, i) ==
    IF i > Len(t) THEN <<>>
    ELSE <<SubSeq(t, i, ChunkEnd(t, i))>> \o chunks_from(t, ChunkEnd(t, i) + 1)

\* Is the chunk white space (chunk.strip() == '')?
Blank(chunk) == \A i \in 1..Len(chunk) : chunk[i] = 32

RECURSIVE joined(_)
joined(l) == IF Len(l) = 0 THEN <<>> ELSE l[1] \o joined(Tail(l))

\* The chunks of one line: the number of chunks, from the first on, that
\* fit into the width after cur_len characters.
RECURSIVE fitting(_, _, _)
fitting(chunks, cur_len, width) ==
    IF Len(chunks) > 0 /\ cur_len + Len(chunks[1]) <= width
    THEN 1 + fitting(Tail(chunks), cur_len + Len(chunks[1]), width)
    ELSE 0

\* drop_whitespace: a line does not end with white space.
without_blank_end(cur_line) ==
    IF Len(cur_line) > 0 /\ Blank(cur_line[Len(cur_line)])
    THEN SubSeq(cur_line, 1, Len(cur_line) - 1) ELSE cur_line

with_line(lines, cur_line) ==
    IF Len(cur_line) > 0 THEN Append(lines, joined(cur_line)) ELSE lines

\* _handle_long_word: of a chunk longer than the width, what the line has
\* room for goes to the line and the rest stays.
space_left(cur_line, width) ==
    IF width < 1 THEN 1 ELSE width - Len(joined(cur_line))

RECURSIVE wrap_chunks(_, _, _)
wrap_line(cur_line, rest, lines, width) ==
    IF Len(rest) > 0 /\ Len(rest[1]) > width
    THEN wrap_chunks(<<SubSeq(rest[1], space_left(cur_line, width) + 1, Len(rest[1]))>>
                         \o Tail(rest),
                     with_line(lines,
                               without_blank_end(
                                   Append(cur_line,
                                          SubSeq(rest[1], 1, space_left(cur_line, width))))),
                     width)
    ELSE wrap_chunks(rest, with_line(lines, without_blank_end(cur_line)), width)

wrap_fitting(chunks, lines, width, n) ==
    wrap_line(SubSeq(chunks, 1, n), SubSeq(chunks, n + 1, Len(chunks)), lines, width)

\* _wrap_chunks: a line after the first does not begin with white space.
wrap_chunks(chunks, lines, width) ==
    IF Len(chunks) = 0 THEN lines
    ELSE IF Blank(chunks[1]) /\ Len(lines) > 0
    THEN wrap_fitting(Tail(chunks), lines, width, fitting(Tail(chunks), 0, width))
    ELSE wrap_fitting(chunks, lines, width, fitting(chunks, 0, width))

wrap(text, width) == wrap_chunks(chunks_from(text, 1), <<>>, width)

\* Copyright (C) 2019 William M. Leiserson
Copyright ==
    <<67, 111, 112, 121, 114, 105, 103, 104, 116, 32, 40, 67, 41, 32, 50,
      48, 49, 57, 32, 87, 105, 108, 108, 105, 97, 109, 32, 77, 46, 32, 76,
      101, 105, 115, 101, 114, 115, 111, 110>>

\* Lines 258-261: the text that is wrapped.
\* This is free software; see the source for copying conditions.  There is NO warranty; not even for MERCHANTABILITY or FITNESS FOR A PARTICULAR PURPOSE.
free_txt ==
    <<84, 104, 105, 115, 32, 105, 115, 32, 102, 114, 101, 101, 32, 115,
      111, 102, 116, 119, 97, 114, 101, 59, 32, 115, 101, 101, 32, 116,
      104, 101, 32, 115, 111, 117, 114, 99, 101, 32, 102, 111, 114, 32, 99,
      111, 112, 121, 105, 110, 103, 32, 99, 111, 110, 100, 105, 116, 105,
      111, 110, 115, 46, 32, 32, 84, 104, 101, 114, 101, 32, 105, 115, 32,
      78, 79, 32, 119, 97, 114, 114, 97, 110, 116, 121, 59, 32, 110, 111,
      116, 32, 101, 118, 101, 110, 32, 102, 111, 114, 32, 77, 69, 82, 67,
      72, 65, 78, 84, 65, 66, 73, 76, 73, 84, 89, 32, 111, 114, 32, 70, 73,
      84, 78, 69, 83, 83, 32, 70, 79, 82, 32, 65, 32, 80, 65, 82, 84, 73,
      67, 85, 76, 65, 82, 32, 80, 85, 82, 80, 79, 83, 69, 46>>

\* Lines 256-263: the texts version() prints.
version(prog) == <<prog, Copyright>> \o wrap(free_txt, 80)

\*  is not a supported operation.  Use -h for help.
MsgNotSupported ==
    <<32, 105, 115, 32, 110, 111, 116, 32, 97, 32, 115, 117, 112, 112, 111,
      114, 116, 101, 100, 32, 111, 112, 101, 114, 97, 116, 105, 111, 110,
      46, 32, 32, 85, 115, 101, 32, 45, 104, 32, 102, 111, 114, 32, 104,
      101, 108, 112, 46>>

\* The command lines: no argument, the flags of the usage and version
\* texts, a word that names no operation, and each operation with the -f
\* texts of its run.
CommandLines ==
    {<<None, <<>> >>}
        \cup {<< <<t>>, <<>> >> : t \in {T_h, T_help, T_v, T_version, T_frob}}
        \cup {<< <<K_pick>>, <<t>> >> : t \in PickArgPool}
        \cup {<< <<K_merge>>, a >> : a \in SeqsUpTo(ArgPool, MaxArgs)}
        \cup {<< <<K_sort>>, a >> : a \in SeqsUpTo(SortArgPool, MaxArgs)}

MainInit ==
    /\ \E line \in CommandLines : operation = line[1] /\ args = line[2]
    /\ pc = "main"
    /\ field_functions = <<>>
    /\ sfield_set = {}
    /\ aggregate_values = <<>>
    /\ cmp_line = None
    /\ stdout = <<>>
    /\ exit_code = None
    /\ error = ""
    /\ rows_read = <<>>
    /\ fields = <<>>
    /\ row_list = <<>>

\* Lines 267-268 and 243-252: without an argument, or with -h or --help,
\* the usage text is printed and the process exits with status 0.
Usage ==
    /\ pc = "main"
    /\ operation \in {None, <<T_h>>, <<T_help>>}
    /\ stdout' = stdout \o usage(argv0)
    /\ exit_code' = <<0>>
    /\ pc' = "exit"
    /\ UNCHANGED <<operation, args, error, rows_read, fields, row_list,
                   merge_vars>>

\* Lines 270-271 and 255-264: with -v or --version the version text is
\* printed and the process exits with status 0.
Version ==
    /\ pc = "main"
    /\ operation \in {<<T_v>>, <<T_version>>}
    /\ stdout' = stdout \o version(argv0)
    /\ exit_code' = <<0>>
    /\ pc' = "exit"
    /\ UNCHANGED <<operation, args, error, rows_read, fields, row_list,
                   merge_vars>>

\* Lines 273-274: sys.argv[1] names an operation, which is entered.
Operation ==
    /\ pc = "main"
    /\ operation \in {<<k>> : k \in ops_keys}
    /\ pc' = "start"
    /\ UNCHANGED <<operation, args, stdout, exit_code, error, rows_read,
                   fields, row_list, merge_vars>>

\* Line 277: any other word is refused by fatal (lines 12-15), its message
\* on standard output and the status 1.
UnknownOperation ==
    /\ pc = "main"
    /\ operation \notin {None, <<T_h>>, <<T_help>>, <<T_v>>, <<T_version>>}
    /\ operation \notin {<<k>> : k \in ops_keys}
    /\ stdout' = Append(stdout, operation[1] \o MsgNotSupported)
    /\ error' = "fatal"
    /\ exit_code' = <<1>>
    /\ pc' = "exit"
    /\ UNCHANGED <<operation, args, rows_read, fields, row_list, merge_vars>>

\* The steps of the operation sys.argv[1] names.
OperationNext ==
    \/ operation = <<K_pick>> /\ PickNext
    \/ operation = <<K_merge>> /\ Next
    \/ operation = <<K_sort>> /\ SortNext

MainNext ==
    \/ Usage
    \/ Version
    \/ Operation
    \/ UnknownOperation
    \/ OperationNext

MainSpec == MainInit /\ [][MainNext]_vars

-----------------------------------------------------------------------------
(* What the claims speak of: the comparable key of a row, the maximal runs *)
(* of the rows read, the fields of an output row.                          *)

\* The row a process is handed for a printed line that it reads from its
\* standard input.
csv_row(line) == read_back(<<line>>).rows[1]

\* The projection of a row onto the field indices that are not aggregated.
RECURSIVE ComparableKey(_)
ComparableKey(row) ==
    IF Len(row) = 0 THEN <<>>
    ELSE ComparableKey(SubSeq(row, 1, Len(row) - 1)) \o
         (IF NFromInt(Len(row) - 1) \in sfield_set THEN <<>> ELSE <<row[Len(row)]>>)

\* The maximal runs of contiguous rows with equal comparable key, in order.
RECURSIVE RunsOf(_)
RunsOf(rows) ==
    IF Len(rows) = 0 THEN <<>>
    ELSE LET before == RunsOf(SubSeq(rows, 1, Len(rows) - 1))
             row == rows[Len(rows)]
             n == Len(before)
         IN  IF n > 0 /\ ComparableKey(before[n][1]) = ComparableKey(row)
             THEN [before EXCEPT ![n] = Append(@, row)]
             ELSE Append(before, <<row>>)

Runs == RunsOf(rows_read)

\* The values of field n in the rows of a run, in order.
ValuesOf(run, n) == [i \in 1..Len(run) |-> Item(run[i], n)]

\* The result of a pair over a run, as text.
Result(run, pair) == str(fcn_set(pair[2], ValuesOf(run, pair[1])))

\* The output rows: every line of stdout, unless fatal printed its message.
OutputRows == IF error = "fatal" THEN <<>> ELSE stdout

Finished == pc = "exit" /\ error = ""

\* The input was not read to its end: the reader raised on a line of it, or
\* the file named on the command line is not there.
InputFailed == error \in {ReaderRaises, "FileNotFoundError"}

-----------------------------------------------------------------------------
\* C1: when merge ends without error, the number of output rows is the
\* number of maximal contiguous runs of rows with equal comparable key; two
\* runs with the same key around a different row give two output rows.
C1_OneRowPerRun == Finished => Len(OutputRows) = Len(Runs)

C1_Witness ==
    /\ Finished
    /\ sfield_set # {}
    /\ Len(rows_read) = 3
    /\ ComparableKey(rows_read[1]) = ComparableKey(rows_read[3])
    /\ ComparableKey(rows_read[1]) # ComparableKey(rows_read[2])
    /\ Len(OutputRows) = 3

\* The appended value of every pair of every output row is the pair's
\* function over the values of its field in exactly the rows of that run.
AppendedValues ==
    LET runs == Runs
    IN  \A k \in 1..Len(OutputRows) :
            LET printed == csv_row(OutputRows[k])
                nkey == Len(ComparableKey(runs[k][1]))
            IN  \A j \in 1..Len(field_functions) :
                    /\ Len(printed) >= nkey + j
                    /\ printed[nkey + j] = Result(runs[k], field_functions[j])

ExampleRun ==
    /\ Finished
    /\ args = << <<50, 58>> \o F_sum >>  \* 2:
    /\ rows_read = << <<T_a, T_1, T_10>>, <<T_a, T_1, T_20>>, <<T_b, T_2, T_30>> >>

\* C2, as claimed: the appended values are the functions over the runs, and
\* a,1,10 a,1,20 b,2,30 with 2:sum give a,1,30 and b,2,30.
C2_Original ==
    /\ AppendedValues
    /\ ExampleRun =>
           /\ Len(OutputRows) = 2
           /\ csv_row(OutputRows[1]) = <<T_a, T_1, T_30>>
           /\ csv_row(OutputRows[2]) = <<T_b, T_2, T_30>>

\* C2, amended: the appended values are the functions over the runs, and
\* the example gives a,1,30.0 and b,2,30.0 (a sum is a float, printed by
\* str()).
C2_Amended ==
    /\ AppendedValues
    /\ ExampleRun =>
           /\ Len(OutputRows) = 2
           /\ csv_row(OutputRows[1]) = <<T_a, T_1, T_30 \o <<46, 48>> >>  \* .0
           /\ csv_row(OutputRows[2]) = <<T_b, T_2, T_30 \o <<46, 48>> >>  \* .0

C2_Witness == ExampleRun /\ Len(OutputRows) = 2

\* The pairs in the order of the command line.
CommandLinePairs == [i \in 1..Len(args) |-> ff(args[i]).pair]

\* C3: every output row is the comparable fields of its group in their
\* original order, then one result per pair in the order of the command
\* line.
C3_Layout ==
    LET runs == Runs
        pairs == CommandLinePairs
    IN  \A k \in 1..Len(OutputRows) :
            csv_row(OutputRows[k]) =
                ComparableKey(runs[k][1]) \o
                [j \in 1..Len(pairs) |-> Result(runs[k], pairs[j])]

C3_Witness ==
    /\ Finished
    /\ Len(args) = 2
    /\ NCmp(CommandLinePairs[1][1], CommandLinePairs[2][1]) > 0
    /\ Len(OutputRows) >= 2
    /\ \E k \in 1..Len(Runs) : Len(Runs[k]) >= 2

NotIgnored == {j \in 1..Len(field_functions) : field_functions[j][2] # F_ignore}

\* C4, as claimed: a pair with ignore adds no field, so an output row has
\* as many fields as the comparable key plus the pairs that are not ignore.
C4_Claim ==
    LET runs == Runs
    IN  \A k \in 1..Len(OutputRows) :
            Len(csv_row(OutputRows[k]))
                = Len(ComparableKey(runs[k][1])) + Cardinality(NotIgnored)

\* Two pairs of the command line name the same field.
HasDuplicate ==
    /\ BadArgs = {}
    /\ \E i, j \in 1..Len(args) : i < j /\ ff(args[i]).pair[1] = ff(args[j]).pair[1]

\* The pairs that are the last of their field index, in order.
RECURSIVE LastPairs(_)
LastPairs(ffs) ==
    IF Len(ffs) = 0 THEN <<>>
    ELSE IF \E j \in 2..Len(ffs) : ffs[j][1] = ffs[1][1] THEN LastPairs(Tail(ffs))
    ELSE <<ffs[1]>> \o LastPairs(Tail(ffs))

\* C5, as claimed: pairs of the same field are accepted, and an output row
\* has one result per field index, that of the last pair naming it.
C5_Original ==
    /\ error = "fatal" => BadArgs # {}
    /\ LET runs == Runs
           last == LastPairs(CommandLinePairs)
       IN  \A k \in 1..Len(OutputRows) :
               csv_row(OutputRows[k]) =
                   ComparableKey(runs[k][1]) \o
                   [i \in 1..Len(last) |-> Result(runs[k], last[i])]

\* C5, amended: pairs of the same field are accepted, and an output row has
\* one result per pair, each by its own function over the values of the
\* field.
C5_Amended ==
    /\ error = "fatal" => BadArgs # {}
    /\ HasDuplicate =>
           LET runs == Runs
               pairs == CommandLinePairs
           IN  \A k \in 1..Len(OutputRows) :
                   LET printed == csv_row(OutputRows[k])
                       nkey == Len(ComparableKey(runs[k][1]))
                   IN  /\ Len(printed) = nkey + Len(pairs)
                       /\ \A j \in 1..Len(pairs) :
                              printed[nkey + j] = Result(runs[k], pairs[j])

C5_Witness ==
    /\ Finished
    /\ HasDuplicate
    /\ \E k \in 1..Len(OutputRows) :
           /\ Len(Runs[k]) >= 2
           /\ Result(Runs[k], CommandLinePairs[1]) # Result(Runs[k], CommandLinePairs[2])

\* The second run: the output rows of this run, read back by the reader
\* from standard input and merged with the same pairs.
Rerun ==
    merge(stdin_readlines(written(OutputRows)), field_functions,
          Ascending(sfield_set))

\* The second run on the output of this run in a file.
RerunOfFile ==
    merge(file_readlines(written(OutputRows)), field_functions,
          Ascending(sfield_set))

\* The run r ends well with the output of this run.
SameOutput(r) == r.raised = "" /\ r.stdout = stdout

\* C6, as claimed: merging the output of a merge with the same pairs gives
\* that output again.
C6_Original ==
    Finished => SameOutput(Rerun)

\* The pairs name, once each and in increasing order, exactly the last
\* fields of every row read.
TrailingPairs ==
    \A i \in 1..Len(rows_read) :
        /\ Len(field_functions) <= Len(rows_read[i])
        /\ \A j \in 1..Len(field_functions) :
               field_functions[j][1]
                   = NFromInt(Len(rows_read[i]) - Len(field_functions) + j - 1)

NoStdev == \A j \in 1..Len(field_functions) : field_functions[j][2] # F_stdev

\* A text that a printed line gives back as one field: not empty, with no
\* delimiter, quote or line end in it.
Plain(t) ==
    /\ t # <<>>
    /\ \A i \in 1..Len(t) : t[i] \notin {delimiter[1], 34, 10, 13}  \* "\n\r

\* The results of the k-th group, one text for each pair.
Results(k) ==
    [j \in 1..Len(field_functions) |-> Result(Runs[k], field_functions[j])]

\* Every field of every row read and every result of the run is plain.
PlainFields ==
    /\ \A i \in 1..Len(rows_read) :
           \A n \in 1..Len(rows_read[i]) : Plain(rows_read[i][n])
    /\ \A k \in 1..Len(Runs) :
           \A j \in 1..Len(field_functions) : Plain(Results(k)[j])

\* No mean of the run is the float -0.0: the mean of -0.0 alone is 0.0.
NoNegativeZeroMean ==
    \A k \in 1..Len(Runs) :
        \A j \in 1..Len(field_functions) :
            field_functions[j][2] = F_mean =>
                Results(k)[j] # <<45, 48, 46, 48>>  \* -0.0

\* C6, amended: merging the output of a merge with the same pairs gives
\* that output again when the pairs name, once each and in increasing
\* order, exactly the last fields of every row, none of them is stdev,
\* every field read and every result is a plain text, and no mean is -0.0;
\* the second run may read the output from its standard input or from a
\* file.
C6_Amended ==
    (Finished /\ TrailingPairs /\ NoStdev /\ PlainFields /\ NoNegativeZeroMean) =>
        SameOutput(Rerun) /\ SameOutput(RerunOfFile)

C6_Witness ==
    /\ Finished
    /\ TrailingPairs
    /\ NoStdev
    /\ PlainFields
    /\ NoNegativeZeroMean
    /\ Len(field_functions) = 2
    /\ field_functions[2][2] = F_mean
    /\ Len(OutputRows) >= 2
    /\ \E k \in 1..Len(Runs) :
           /\ Len(Runs[k]) >= 2
           /\ Results(k)[2] \notin {Item(Runs[k][i], field_functions[2][1]) :
                                        i \in 1..Len(Runs[k])}
    /\ SameOutput(Rerun)

\* C7, as claimed: every -f text is checked before a row is read, and a
\* text that is refused ends the run with a status that is not 0, no row
\* read and nothing written to the output.
C7_Claim ==
    (BadArgs # {} /\ pc # "start") =>
        /\ pc = "exit"
        /\ exit_code # None /\ exit_code # <<0>>
        /\ rows_read = <<>>
        /\ stdout = <<>>

\* A run holds, in a field with a numeric function, a text that is no number.
NonNumericIn(run) ==
    \E j \in 1..Len(field_functions) :
        /\ field_functions[j][2] \in Numeric
        /\ \E i \in 1..Len(run) :
               /\ HasItem(run[i], field_functions[j][1])
               /\ ~float(Item(run[i], field_functions[j][1])).ok

\* C8: when a group g holds a text that is no number in a field with a
\* numeric function, the run does not end well: while rows are read g is
\* the open group, no output row is written for g or a later group, and
\* when ValueError ends the run the rows of the groups before g are the
\* output.  The run ends with ValueError when g is closed, unless a row
\* without an aggregated field (IndexError) or a line the reader refuses
\* (Error) ends it while g is open.
C8_AbortOnNonNumeric ==
    LET runs == Runs
        bad == {k \in 1..Len(runs) : NonNumericIn(runs[k])}
    IN  bad # {} =>
            LET g == CHOOSE k \in bad : \A m \in bad : k <= m
            IN  /\ Len(OutputRows) < g
                /\ pc = "rows" => g = Len(runs)
                /\ pc = "exit" => exit_code = <<1>> /\ error \in {"ValueError", "IndexError", "Error"}
                /\ error = "ValueError" => Len(OutputRows) = g - 1

C8_Witness ==
    /\ error = "ValueError"
    /\ pc = "exit"
    /\ Len(OutputRows) = 1
    /\ Len(Runs) = 3
    /\ NonNumericIn(Runs[2])

\* A row without a field at an aggregated index.
Lacks(row) == \E n \in sfield_set : ~HasItem(row, n)

\* C9: a row without a field at an aggregated index ends the run when it is
\* processed, whether it opens a group or would extend the open one; when
\* the first row is such a row (as with 9:max and no row of ten fields) the
\* run ends with IndexError and no output.  A row that closes a group ends
\* the run with the exception of that group's flush when the flush raises.
C9_BoundIndexRequired ==
    /\ \A i \in 1..Len(rows_read) :
           Lacks(rows_read[i]) =>
               /\ i = Len(rows_read)
               /\ pc = "exit"
               /\ exit_code = <<1>>
               /\ error \in {"IndexError", "ValueError", "AttributeError"}
    /\ (Len(rows_read) >= 1 /\ Lacks(rows_read[1])) =>
           (error = "IndexError" /\ OutputRows = <<>>)

C9_Witness ==
    /\ \E j \in 1..Len(field_functions) : field_functions[j] = <<NFromInt(9), F_max>>
    /\ Len(rows_read) = 1
    /\ error = "IndexError"
    /\ exit_code = <<1>>
    /\ OutputRows = <<>>

\* The open group is extended by a row that lacks an aggregated field.
C9_WitnessExtend ==
    /\ Len(rows_read) = 2
    /\ ~Lacks(rows_read[1])
    /\ Lacks(rows_read[2])
    /\ ComparableKey(rows_read[1]) = ComparableKey(rows_read[2])
    /\ error = "IndexError"

\* C10: a first pair appends the raw field of the first row of the run and
\* a last pair the raw field of its last row, text that is no number
\* included; once ff has accepted every argument and none names a numeric
\* function, no row ends the run in ValueError.
C10_FirstLastRaw ==
    /\ LET runs == Runs
       IN  \A k \in 1..Len(OutputRows) :
               LET printed == csv_row(OutputRows[k])
                   nkey == Len(ComparableKey(runs[k][1]))
               IN  \A j \in 1..Len(field_functions) :
                       LET n == field_functions[j][1]
                       IN  /\ field_functions[j][2] = F_first =>
                                  printed[nkey + j] = Item(runs[k][1], n)
                           /\ field_functions[j][2] = F_last =>
                                  printed[nkey + j] = Item(runs[k][Len(runs[k])], n)
    /\ (/\ BadArgs = {}
        /\ \A j \in 1..Len(field_functions) :
               field_functions[j][2] \notin Numeric)
           => error # "ValueError"

C10_Witness ==
    /\ Finished
    /\ Len(Runs) = 1
    /\ Len(Runs[1]) >= 2
    /\ field_functions = <<<<NFromInt(0), F_first>>, <<NFromInt(1), F_last>>>>
    /\ Runs[1][1][1] # Runs[1][Len(Runs[1])][1]
    /\ ~float(Runs[1][1][1]).ok
    /\ ~float(Runs[1][Len(Runs[1])][2]).ok
    /\ csv_row(OutputRows[1]) = <<Runs[1][1][1], Runs[1][Len(Runs[1])][2]>>

-----------------------------------------------------------------------------
\* The rows with every row that repeats the row before it left out.
RECURSIVE Dedup(_)
Dedup(rows) ==
    IF Len(rows) <= 1 THEN rows
    ELSE LET before == Dedup(SubSeq(rows, 1, Len(rows) - 1))
         IN  IF rows[Len(rows)] = rows[Len(rows) - 1] THEN before
             ELSE Append(before, rows[Len(rows)])

AllButLast(l) == SubSeq(l, 1, Len(l) - 1)

\* The lines of stdout read back as rows.
OutputFields == [k \in 1..Len(OutputRows) |-> csv_row(OutputRows[k])]

\* C11: with no pair on the command line the run ends well on every input
\* the reader reads to its end, and its output, read back as rows, is the
\* rows read with every maximal run of identical consecutive rows replaced
\* by one copy: no field is added or removed.  When the reader raises on a
\* line, the output is that of the rows before it without the open group;
\* when the file is not there, no row is read and nothing is written.
C11_AdjacentDedup ==
    (args = <<>> /\ pc = "exit") =>
        IF InputFailed
        THEN OutputFields = AllButLast(Dedup(rows_read))
        ELSE error = "" /\ OutputFields = Dedup(rows_read)

C11_Witness ==
    /\ Finished
    /\ args = <<>>
    /\ Len(rows_read) = 3
    /\ rows_read[1] = rows_read[2]
    /\ rows_read[2] # rows_read[3]
    /\ rows_read[2][1] = rows_read[3][1]
    /\ OutputFields = <<rows_read[1], rows_read[3]>>

\* The k-th group is closed with every group before it printed: a row of
\* another group was read after it, or the input ended.
Closed(k) ==
    /\ Len(OutputRows) >= k - 1
    /\ k < Len(Runs) \/ (pc = "exit" /\ ~InputFailed)

\* Every aggregated field of the row is there, and a number where its
\* function is numeric.
Aggregable(row) ==
    \A j \in 1..Len(field_functions) :
        /\ HasItem(row, field_functions[j][1])
        /\ field_functions[j][2] \in Numeric =>
               float(Item(row, field_functions[j][1])).ok

\* Every field of the row under stdev is a finite number.
FiniteUnderStdev(row) ==
    \A j \in 1..Len(field_functions) :
        field_functions[j][2] = F_stdev =>
            float(Item(row, field_functions[j][1])).q.kind = "fin"

\* The k-th group is printed with 0.0 for every stdev.
PrintedZero(k) ==
    /\ Len(OutputRows) >= k
    /\ LET nkey == Len(ComparableKey(Runs[k][1]))
       IN  \A j \in 1..Len(field_functions) :
               field_functions[j][2] = F_stdev =>
                   OutputFields[k][nkey + j] = <<48, 46, 48>>  \* 0.0

\* The closed groups of one row whose aggregated fields are numbers.
SingletonsUnderStdev ==
    {k \in 1..Len(Runs) :
        /\ Len(Runs[k]) = 1
        /\ Closed(k)
        /\ Aggregable(Runs[k][1])}

\* C12, amended: stdev over a group of one row never raises
\* StatisticsError, and when the one value is a finite number the result
\* appended for the group is the float 0, printed 0.0.
C12_Amended ==
    /\ error # "StatisticsError"
    /\ \A k \in SingletonsUnderStdev :
           FiniteUnderStdev(Runs[k][1]) => PrintedZero(k)

\* C12, as claimed: stdev over a group of one row whose value float()
\* reads as a number never fails and its result is the float 0.
C12_Original ==
    /\ error # "StatisticsError"
    /\ \A k \in SingletonsUnderStdev : PrintedZero(k)

C12_Witness ==
    /\ Finished
    /\ \E j \in 1..Len(field_functions) : field_functions[j] = <<NFromInt(2), F_stdev>>
    /\ Len(rows_read) = 2
    /\ Len(Runs) = 2
    /\ OutputFields[1] = <<T_a, T_1, <<48, 46, 48>> >>  \* 0.0
    /\ OutputFields[2] = <<T_b, T_2, <<48, 46, 48>> >>  \* 0.0

\* C13: with every -f text accepted and no row read, no group is ever open
\* and nothing is written; when the input ends there the run ends with
\* status 0 and no output line.  The other ends of such a run are the
\* reader raising on the first line, of an input that is not empty, and
\* the file named not being there, which is no input.
C13_EmptyInput ==
    (BadArgs = {} /\ pc # "start" /\ rows_read = <<>>) =>
        /\ cmp_line = None
        /\ stdout = <<>>
        /\ error = "" \/ InputFailed
        /\ (pc = "exit" /\ error = "") => exit_code = <<0>>

C13_Witness ==
    /\ pc = "exit"
    /\ rows_read = <<>>
    /\ Len(field_functions) = 2
    /\ \E j \in 1..2 : field_functions[j][2] \in Numeric
    /\ cmp_line = None
    /\ stdout = <<>>
    /\ error = ""
    /\ exit_code = <<0>>

\* The fields of the output row of a run: its comparable key, then the
\* result of every pair of the command line.
ExpectedFields(run) ==
    ComparableKey(run[1]) \o
    [j \in 1..Len(CommandLinePairs) |-> Result(run, CommandLinePairs[j])]

\* After any prefix of the input, read without error, the lines written
\* are the output rows of the closed groups of the prefix, in input order:
\* all the groups but the open one, and all the groups once the input ended.
C14_Closed ==
    (pc # "start" /\ error = "") =>
        LET runs == Runs
            closed == IF pc = "exit" THEN Len(runs)
                      ELSE IF Len(runs) = 0 THEN 0 ELSE Len(runs) - 1
        IN  /\ Len(stdout) = closed
            /\ \A k \in 1..closed : OutputFields[k] = ExpectedFields(runs[k])

\* A step of the run after the pairs are parsed: lines are only added at
\* the end of stdout, one at most; a row whose key is the key of the open
\* group adds none; a line is added only when a row with another key
\* arrives or the input ends, and it is the output row of the group that
\* was open.
C14_Step ==
    pc = "rows" =>
        LET runs == Runs
            n == Len(runs)
            arrived == rows_read' # rows_read
            row == rows_read'[Len(rows_read')]
        IN  /\ \/ stdout' = stdout
               \/ /\ Len(stdout') = Len(stdout) + 1
                  /\ SubSeq(stdout', 1, Len(stdout)) = stdout
            /\ (arrived /\ n > 0 /\ ComparableKey(row) = ComparableKey(runs[n][1]))
                   => stdout' = stdout
            /\ stdout' # stdout =>
                   /\ n > 0
                   /\ \/ arrived /\ ComparableKey(row) # ComparableKey(runs[n][1])
                      \/ ~arrived /\ pc' = "exit"
                   /\ csv_row(stdout'[Len(stdout')]) = ExpectedFields(runs[n])

\* C14: output is written only at group boundaries and in input order: a
\* row with the key of the open group writes nothing, the output row of a
\* group is written once, when the first row of the next group arrives or
\* the input ends, after the rows of all earlier groups; so after any
\* prefix of the input the lines written are those of its closed groups.
C14_OutputAtBoundaries == [](C14_Closed) /\ [][C14_Step]_vars

C14_Witness ==
    /\ pc = "rows"
    /\ error = ""
    /\ Len(field_functions) >= 1
    /\ Len(rows_read) = 3
    /\ Len(Runs) = 2
    /\ Len(Runs[2]) = 2
    /\ Len(stdout) = 1
    /\ OutputFields[1] = ExpectedFields(Runs[1])

\* C15: after each row processed without error a group is open and, for
\* every aggregated field index, the list kept for it is the values of
\* that field in the rows of the open run, in order: every list is as long
\* as the open run, and no value of a flushed group is kept.
C15_Accumulators ==
    (pc = "rows" /\ rows_read # <<>>) =>
        LET runs == Runs
            open == runs[Len(runs)]
        IN  /\ cmp_line # None
            /\ DOMAIN aggregate_values = sfield_set
            /\ \A n \in sfield_set :
                   /\ aggregate_values[n] = ValuesOf(open, n)
                   /\ Len(aggregate_values[n]) = Len(open)

C15_Witness ==
    /\ pc = "rows"
    /\ Len(rows_read) = 3
    /\ Len(Runs) = 2
    /\ Len(Runs[2]) = 2
    /\ Len(stdout) = 1
    /\ Cardinality(sfield_set) = 2
    /\ \A n \in sfield_set :
           /\ Len(aggregate_values[n]) = 2
           /\ aggregate_values[n][1] # Item(rows_read[1], n)

\* C16: the results are appended in place to the list cmp_line names, as
\* the list of the last group shows when the run has ended; yet whenever a
\* row is about to be compared, cmp_line is the projection of the first row
\* of the open group, with no result in it.
C16_KeyIntegrity ==
    /\ (pc = "rows" /\ rows_read # <<>>) =>
           cmp_line = <<ComparableKey(Runs[Len(Runs)][1])>>
    /\ (Finished /\ rows_read # <<>>) =>
           cmp_line = <<ExpectedFields(Runs[Len(Runs)])>>

C16_Witness ==
    /\ pc = "rows"
    /\ Len(field_functions) >= 1
    /\ Len(rows_read) >= 2
    /\ Len(stdout) >= 1
    /\ cmp_line = <<ComparableKey(rows_read[Len(rows_read)])>>
    /\ Len(OutputFields[Len(stdout)]) > Len(ComparableKey(rows_read[1]))

\* At least one row is read and every field index of every row read is
\* aggregated.
AllAggregated ==
    /\ rows_read # <<>>
    /\ \A i \in 1..Len(rows_read) :
           \A n \in 0..(Len(rows_read[i]) - 1) : NFromInt(n) \in sfield_set

\* C17: when every field index of the rows is aggregated, the first row
\* opens a group whose key is the empty list, which is not None; every
\* later row joins that group and nothing is written while rows are read;
\* at the end of the input one row is written, made of the results alone.
C17_EmptyKey ==
    (AllAggregated /\ error = "") =>
        /\ cmp_line # None
        /\ pc = "rows" =>
               /\ cmp_line = << <<>> >>
               /\ stdout = <<>>
               /\ \A n \in sfield_set : aggregate_values[n] = ValuesOf(rows_read, n)
        /\ pc = "exit" =>
               /\ Len(stdout) = 1
               /\ OutputFields[1] =
                      [j \in 1..Len(CommandLinePairs) |->
                          Result(rows_read, CommandLinePairs[j])]

C17_Witness ==
    /\ Finished
    /\ AllAggregated
    /\ Len(rows_read) = 3
    /\ rows_read[1] # rows_read[2]
    /\ rows_read[2] # rows_read[3]
    /\ Len(stdout) = 1
    /\ OutputFields[1] = <<rows_read[1][1], rows_read[3][2]>>

-----------------------------------------------------------------------------
SortFinished == pc = "exit" /\ error = ""

\* The key of the i-th row read under the j-th pair of the command line.
KeyOf(i, j) == sort_key(rows_read[i], fields[j][1], fields[j][2]).k

\* Row a of the input comes before row b in the order of the claim: the
\* last pair on which their keys differ in value decides, from the last
\* pair back to the first; with all keys equal, the place in the input.
RECURSIVE Precedes(_, _, _)
Precedes(a, b, j) ==
    IF j = 0 THEN a < b
    ELSE IF key_less(fields[j][2], KeyOf(a, j), KeyOf(b, j)) THEN TRUE
    ELSE IF key_less(fields[j][2], KeyOf(b, j), KeyOf(a, j)) THEN FALSE
    ELSE Precedes(a, b, j - 1)

\* The place of the i-th row read in the output.
Rank(i) ==
    1 + Cardinality({k \in 1..Len(rows_read) :
                        k # i /\ Precedes(k, i, Len(fields))})

\* No key of the run is nan, the one float that < orders with no other.
NoNanKey ==
    \A j \in 1..Len(fields) :
        fields[j][2] = K_float =>
            \A i \in 1..Len(rows_read) : KeyOf(i, j).kind # "nan"

\* How many times x stands in the sequence l.
Count(l, x) == Cardinality({i \in 1..Len(l) : l[i] = x})

\* Each row read is printed as often as it was read.
OutputPermutes ==
    /\ Len(stdout) = Len(rows_read)
    /\ \A i \in 1..Len(rows_read) :
           Count(OutputFields, rows_read[i]) = Count(rows_read, rows_read[i])

\* The rows are printed in the order of the claim.
OutputRanked ==
    \A i \in 1..Len(rows_read) : csv_row(stdout[Rank(i)]) = rows_read[i]

\* No printed row has a smaller key under the last pair than a row printed
\* before it.
OutputNonDecreasing ==
    LET m == Len(fields)
    IN  \A i, k \in 1..Len(stdout) :
            i < k =>
                ~key_less(fields[m][2],
                          sort_key(OutputFields[k], fields[m][1], fields[m][2]).k,
                          sort_key(OutputFields[i], fields[m][1], fields[m][2]).k)

\* The run had no -f and ended with TypeError, no row read and nothing
\* printed.
EndedWithoutFields ==
    /\ error = "TypeError"
    /\ exit_code = <<1>>
    /\ rows_read = <<>>
    /\ stdout = <<>>

\* C18, as the program has it: a sort ends well only with one pair or
\* more, and then its output is a permutation of the rows read; when no
\* float key is nan, a row comes before another when its key under the
\* last pair is smaller, or, the keys of the later pairs being equal, its
\* key under an earlier pair is smaller, or, all keys being equal, it was
\* read first, so that the output is non-decreasing on the key of the last
\* pair.  A sort without -f ends with TypeError before a row is read.
C18_Amended ==
    /\ (args = None /\ pc = "exit") => EndedWithoutFields
    /\ SortFinished =>
           /\ Len(fields) >= 1
           /\ OutputPermutes
           /\ NoNanKey => (OutputRanked /\ OutputNonDecreasing)

\* C18 as stated, for every input: the output of a sort that ends well is
\* non-decreasing on the key of the last pair and its ties are in the order
\* of the earlier pairs, then of the input.
C18_Original ==
    SortFinished => (OutputPermutes /\ OutputRanked /\ OutputNonDecreasing)

C18_Witness ==
    /\ SortFinished
    /\ NoNanKey
    /\ Len(fields) = 2
    /\ fields[1][2] # fields[2][2]
    /\ Len(rows_read) = 3
    /\ \E a, b \in 1..3 :
           /\ a < b
           /\ KeyOf(a, 2) = KeyOf(b, 2)
           /\ key_less(fields[1][2], KeyOf(b, 1), KeyOf(a, 1))
           /\ Rank(b) < Rank(a)
    /\ \E a, b \in 1..3 :
           /\ a < b
           /\ key_less(fields[2][2], KeyOf(b, 2), KeyOf(a, 2))
           /\ key_less(fields[1][2], KeyOf(a, 1), KeyOf(b, 1))
           /\ Rank(b) < Rank(a)

====
